---------------------------- MODULE Spec2Model ----------------------------
(***************************************************************************)
(* Model of the SauceDemo API mock (src/server.js, the v7.0 server of      *)
(* lines 1-343; the later variants repeat its cart, coupon and checkout    *)
(* handlers).  A handler is an operator from the state and the request to  *)
(* its outcome: the response it sends and the state it leaves.  There is   *)
(* one action per HTTP request, which installs the handler's outcome; a    *)
(* handler that awaits a timer is split at the await.                      *)
(*                                                                         *)
(* Numbers.  Quantities and stock are JavaScript numbers and the add-to-   *)
(* cart handler accepts non-integers, so they are counted in halves: the   *)
(* model integer n stands for the number n/2 (N(3) is 3, N(3) \div 2 is    *)
(* 1.5).  Money is counted in cents once it has passed toFixed(2), and in  *)
(* hundredths of a cent before.                                            *)
(***************************************************************************)
EXTENDS Integers, Sequences, FiniteSets, TLC

VARIABLES
    inventory,      \* server.js:27   the catalog, an array of products
    nextProductId,  \* server.js:36   the id of the next product created
    stock,          \* server.js:38   Map productId -> quantity
    sessions,       \* server.js:41   Map token -> session
    orderHistory,   \* server.js:42   array of orders
    nextToken,      \* the tokens randomUUID() has handed out so far
    delayed,        \* tokens whose checkout sleeps in the error_user timer
    requests,       \* number of requests received so far
    usersV10,       \* server.js:357  the accounts of version 10, an array
    loginsDelayed,  \* the logins that sleep in the performance timer
    listingsDelayed, \* the catalog listings that sleep in the performance timer
    rateLimitStore, \* part_000:19   Map ip -> { count, authCount, resetTime }
    now             \* Date.now()

vars == <<inventory, nextProductId, stock, sessions, orderHistory, nextToken, delayed, requests,
          usersV10, loginsDelayed, listingsDelayed, rateLimitStore, now>>

-----------------------------------------------------------------------------
(* Bounds of the model *)

MaxRequests == 4
MaxShopRequests == 6
MaxTokens == 2
MaxReorderLen == 2
MaxPricingRequests == 2
MaxPairQuantity == 3
MaxCouponRequests == 4
MaxCatalogRequests == 6
MaxAccountRequests == 4
MaxWindows == 2
MaxDelayRequests == 5

-----------------------------------------------------------------------------
(* JavaScript numbers, in halves *)

N(n) == 2 * n
(* faulty variant: every number passes for an integer *)
IsIntegerAlways(q) == TRUE

IsInteger(q) == q % 2 = 0
(* faulty variant: the cap is not applied *)
MinUncapped(a, b) == a

Min(a, b) == IF a < b THEN a ELSE b
NULL == "null"

(* Number(s) of a path segment: <<n>> for a numeral, <<>> for NaN *)
NumberOf(seg) ==
    CASE seg = "0" -> <<0>>
      [] seg = "1" -> <<1>>
      [] seg = "7" -> <<7>>
      [] OTHER -> <<>>

-----------------------------------------------------------------------------
(* Program data *)

MAX_STOCK == 10
TAX_PERCENT == 8
LINE_CAP == 10

users ==
    << [username |-> "standard_user", password |-> "secret_sauce", type |-> "standard", role |-> "user"],
       [username |-> "locked_out_user", password |-> "secret_sauce", type |-> "locked", role |-> "user"],
       [username |-> "problem_user", password |-> "secret_sauce", type |-> "problem", role |-> "user"],
       [username |-> "performance_glitch_user", password |-> "secret_sauce", type |-> "performance", role |-> "user"],
       [username |-> "visual_user", password |-> "secret_sauce", type |-> "visual", role |-> "user"],
       [username |-> "error_user", password |-> "secret_sauce", type |-> "error", role |-> "user"],
       [username |-> "admin", password |-> "admin123", type |-> "standard", role |-> "admin"] >>

InitialInventory ==
    << [id |-> 0, price |-> 999],
       [id |-> 1, price |-> 1599],
       [id |-> 2, price |-> 799],
       [id |-> 3, price |-> 1599],
       [id |-> 4, price |-> 2999],
       [id |-> 5, price |-> 4999] >>

(* validCoupons: code -> discount, in percent *)
validCoupons == [c \in {"SAVE20", "TEST50"} |-> IF c = "SAVE20" THEN 20 ELSE 50]

(* validCoupons is an object literal: a lookup also finds the properties    *)
(* that every object inherits from Object.prototype, which are functions    *)
(* or objects and so truthy                                                 *)
ObjectPrototypeKeys ==
    {"constructor", "hasOwnProperty", "isPrototypeOf", "propertyIsEnumerable",
     "toLocaleString", "toString", "valueOf", "__proto__"}

(* table[code] is truthy *)
Truthy(table, code) ==
    \/ code \in DOMAIN table /\ table[code] # 0
    \/ code \in ObjectPrototypeKeys

(* validCoupons[code] is truthy *)
CouponValid(code) == Truthy(validCoupons, code)

(* the number that is not one: the product of a number and a function *)
NaN == 0 - 1

-----------------------------------------------------------------------------
(* Inputs of the requests *)

Tokens == 1..MaxTokens
ProductIds == {0, 1, 7}
CartIds == {0, 1}
StockIds == {0, 7}
Segments == {"0", "1", "7", "coupon"}
Credentials ==
    { [username |-> "standard_user", password |-> "secret_sauce"],
      [username |-> "error_user", password |-> "secret_sauce"],
      [username |-> "admin", password |-> "admin123"],
      [username |-> "locked_out_user", password |-> "secret_sauce"],
      [username |-> "standard_user", password |-> "wrong"] }
(* the quantity of POST /api/cart: <<>> when the body has none *)
AddQuantities == { <<>>, <<N(0)>>, <<N(3) \div 2>>, <<N(5)>>, <<N(6)>>, <<N(11)>> }
PatchQuantities == { N(3) \div 2, N(2), N(11) }
StockQuantities == { N(0 - 1), N(3), N(12) }
CouponCodes == { "SAVE20", "BOGUS", "constructor" }
Customers ==
    { [firstName |-> "A", lastName |-> "B", postalCode |-> "1"],
      [firstName |-> "A", lastName |-> "B", postalCode |-> ""] }
(* the outcomes of the random order id *)
OrderIds == { "ORDER-A", "ORDER-B" }
ReorderLists == UNION { [1..n -> CartIds] : n \in 0..MaxReorderLen }

-----------------------------------------------------------------------------
(* Array helpers *)

(* findIndex: the first index whose element satisfies P, 0 when none *)
FindIndex(s, P(_)) ==
    IF \E i \in 1..Len(s) : P(s[i])
    THEN CHOOSE i \in 1..Len(s) : P(s[i]) /\ \A j \in 1..(i - 1) : ~P(s[j])
    ELSE 0

Splice(s, i) == [j \in 1..(Len(s) - 1) |-> IF j < i THEN s[j] ELSE s[j + 1]]

RECURSIVE SumOf(_)
SumOf(s) == IF s = <<>> THEN 0 ELSE Head(s) + SumOf(Tail(s))

LineIndex(cart, id) == FindIndex(cart, LAMBDA l : l.productId = id)
ProductIndex(id) == FindIndex(inventory, LAMBDA p : p.id = id)

-----------------------------------------------------------------------------
(* calculateCartDetails *)

(* The products of price and quantity that lie exactly between two cents,  *)
(* in hundredths of a cent, by the side the IEEE double of the product     *)
(* falls on; toFixed(2) rounds the double, not the decimal.                *)
TiesBelow == {149850, 239850, 449550, 719550, 749250, 1199250, 1359150}
TiesAbove == {49950, 79950, 249750, 349650, 399750, 549450, 559650, 649350,
              849150, 879450, 949050, 1039350, 1519050}

(* the product of a price and a quantity lies under the decimal it stands  *)
(* for                                                                      *)
ProductBelow(x) ==
    CASE x % 100 # 50 -> FALSE
      [] x % 100 = 50 /\ x \in TiesBelow -> TRUE
      [] x % 100 = 50 /\ x \in TiesAbove -> FALSE

(* The IEEE double of an amount of c cents, c > 0: with 2^k <= c/100 <     *)
(* 2^(k+1) its 53-bit mantissa is c * 2^(52-k) / 100 rounded to the        *)
(* nearest integer, so the remainder of that division tells the side the    *)
(* double falls on.                                                         *)
RECURSIVE Log2Dollars(_)
Log2Dollars(c) ==
    IF c >= 200 THEN Log2Dollars(c \div 2) + 1
    ELSE IF c < 100 THEN Log2Dollars(2 * c) - 1
    ELSE 0

RECURSIVE PowerOf2Mod100(_)
PowerOf2Mod100(e) == IF e = 0 THEN 1 ELSE (2 * PowerOf2Mod100(e - 1)) % 100

MantissaRemainder(c) == ((c % 100) * PowerOf2Mod100(52 - Log2Dollars(c))) % 100

(* the double of c cents lies under c/100 *)
DoubleBelow(c) == c > 0 /\ MantissaRemainder(c) \in 1..49

(* +(x).toFixed(2), x in hundredths of a cent, the result in cents; below   *)
(* says that the double lies under the decimal x stands for, which decides  *)
(* where a decimal that ends in 5 goes                                      *)
ToFixed2(x, below) ==
    IF x % 100 < 50 \/ (x % 100 = 50 /\ below)
    THEN x \div 100
    ELSE (x \div 100) + 1

(* +(p.price * item.quantity).toFixed(2), x the product *)
LineTotal(x) == ToFixed2(x, ProductBelow(x))

(* { ...p, quantity, lineTotal } of the product p a line names *)
ItemOf(p, quantity) ==
    [productId |-> p.id, price |-> p.price, quantity |-> quantity,
     lineTotal |-> LineTotal(p.price * quantity * 50)]

PricedItem(line) == ItemOf(inventory[ProductIndex(line.productId)], line.quantity)

(* itemTotal * table[coupon]: times 0.5 is exact, so the product lies      *)
(* where the double of itemTotal lies, and no other product ends in 5;      *)
(* times an inherited property it is NaN, and so is its toFixed             *)
Discount(itemTotal, coupon, table) ==
    IF coupon \in DOMAIN table
    THEN ToFixed2(itemTotal * table[coupon], DoubleBelow(itemTotal))
    ELSE NaN

(* subtotal, tax, total and the object returned, from the items, their    *)
(* total and the discount                                                  *)
DetailsOf(items, itemTotal, discount, coupon) ==
    LET subtotal == IF discount = NaN THEN NaN
                    ELSE ToFixed2((itemTotal - discount) * 100, FALSE)
        tax == IF subtotal = NaN THEN NaN ELSE ToFixed2(subtotal * TAX_PERCENT, FALSE)
        total == IF subtotal = NaN THEN NaN ELSE ToFixed2((subtotal + tax) * 100, FALSE)
    IN  [items |-> items, itemTotal |-> itemTotal, discount |-> discount,
         coupon |-> coupon, subtotal |-> subtotal, tax |-> tax, total |-> total]

(* the discount of the items' total, then the rest *)
DiscountedDetails(items, itemTotal, coupon, table) ==
    DetailsOf(items, itemTotal,
              IF coupon # NULL /\ Truthy(table, coupon)
              THEN Discount(itemTotal, coupon, table)
              ELSE 0,
              coupon)

(* the total of the items, then the rest *)
ItemisedDetails(items, coupon, table) ==
    DiscountedDetails(items,
                      ToFixed2(SumOf([i \in 1..Len(items) |-> items[i].lineTotal]) * 100, FALSE),
                      coupon, table)

(* the lines whose product the inventory has, priced *)
ItemsOf(found) == [i \in 1..Len(found) |-> PricedItem(found[i])]

(* the pricing with the coupon table as a parameter *)
PricedCart(cart, coupon, table) ==
    ItemisedDetails(ItemsOf(SelectSeq(cart, LAMBDA l : ProductIndex(l.productId) # 0)),
                    coupon, table)

calculateCartDetails(cart, coupon) == PricedCart(cart, coupon, validCoupons)

-----------------------------------------------------------------------------
(* Responses and outcomes *)

Reply(status, error, available, body) ==
    [status |-> status, error |-> error, available |-> available, body |-> body]

Fail(status, error) == Reply(status, error, <<>>, <<>>)
Ok(status, body) == Reply(status, "", <<>>, <<body>>)

(* what a handler leaves behind: its response, <<>> while it still sleeps, *)
(* and the maps and arrays it may write                                    *)
Outcome(resp, sess, stk, hist, dl) ==
    [response |-> resp, sessions |-> sess, stock |-> stk, orderHistory |-> hist,
     delayed |-> dl, inventory |-> inventory, nextProductId |-> nextProductId,
     loginsDelayed |-> loginsDelayed, listingsDelayed |-> listingsDelayed]

(* a handler that writes the catalog and the stock *)
CatalogOutcome(r, inv, next, stk) ==
    [Outcome(<<r>>, sessions, stk, orderHistory, delayed)
       EXCEPT !.inventory = inv, !.nextProductId = next]

(* a handler that returns before it writes *)
Rejected(r) == Outcome(<<r>>, sessions, stock, orderHistory, delayed)

(* a handler that writes the session of token t *)
SessionOutcome(r, t, session) ==
    Outcome(<<r>>, [sessions EXCEPT ![t] = session], stock, orderHistory, delayed)

(* getSession: the session of a bearer token, if any *)
getSession(t) == IF t \in DOMAIN sessions THEN <<sessions[t]>> ELSE <<>>
requireAuth(t) == getSession(t) # <<>>
(* faulty variant: any session will do *)
requireAdminOfAnyRole(t) == getSession(t) # <<>>

requireAdmin(t) == getSession(t) # <<>> /\ sessions[t].role = "admin"

Unauthorized == Fail(401, "Unauthorized")
Forbidden == Fail(403, "Admin access required")

(* faulty variant: a unit of every product of the cart is taken off the   *)
(* stock                                                                   *)
CartOutcomeReserving(status, t, cart) ==
    [SessionOutcome(Ok(status, calculateCartDetails(cart, sessions[t].appliedCoupon)),
                    t, [sessions[t] EXCEPT !.cart = cart])
       EXCEPT !.stock = [id \in DOMAIN stock |->
                           IF \E i \in 1..Len(cart) : cart[i].productId = id
                           THEN stock[id] - N(1) ELSE stock[id]]]

(* a handler that writes the cart of session t and sends the priced cart *)
CartOutcome(status, t, cart) ==
    SessionOutcome(Ok(status, calculateCartDetails(cart, sessions[t].appliedCoupon)),
                   t, [sessions[t] EXCEPT !.cart = cart])

-----------------------------------------------------------------------------
(* POST /api/login *)
FindUser(cred) ==
    FindIndex(users, LAMBDA u : u.username = cred.username /\ u.password = cred.password)

NewSession(user) ==
    [username |-> user.username, role |-> user.role, type |-> user.type,
     cart |-> << >>, appliedCoupon |-> NULL, lastCheckout |-> << >>]

(* faulty variant: the type of the user is not looked at *)
postLoginOfAnyType(cred, token) ==
    LET i == FindUser(cred)
    IN  IF i = 0 THEN Rejected(Fail(401, "Invalid credentials"))
        ELSE Outcome(<<Ok(200, [token |-> token, username |-> cred.username, role |-> users[i].role])>>,
                     sessions @@ (token :> NewSession(users[i])),
                     stock, orderHistory, delayed)

(* the handler up to its await or, when it has none, to its response; the *)
(* number of the request tells the sleeping logins apart                   *)
postLogin(cred, token) ==
    LET i == FindUser(cred)
    IN  IF i = 0 THEN Rejected(Fail(401, "Invalid credentials"))
        ELSE IF users[i].type = "locked"
             THEN Rejected(Fail(403, "Sorry, this user has been locked out."))
        ELSE IF users[i].type = "performance"
             THEN [Outcome(<<>>, sessions, stock, orderHistory, delayed)
                     EXCEPT !.loginsDelayed =
                              loginsDelayed \cup {[user |-> users[i], request |-> requests]}]
        ELSE Outcome(<<Ok(200, [token |-> token, username |-> cred.username, role |-> users[i].role])>>,
                     sessions @@ (token :> NewSession(users[i])),
                     stock, orderHistory, delayed)

(* the handler after its await: the performance timer has fired; user is *)
(* the object the handler found before it slept                            *)
postLoginAfterAwait(login, token) ==
    [Outcome(<<Ok(200, [token |-> token, username |-> login.user.username,
                        role |-> login.user.role])>>,
             sessions @@ (token :> NewSession(login.user)),
             stock, orderHistory, delayed)
       EXCEPT !.loginsDelayed = loginsDelayed \ {login}]

(* POST /api/logout *)
(* faulty variant: every session of the user is removed *)
postLogoutEverywhere(t) ==
    IF ~requireAuth(t) THEN Rejected(Unauthorized)
    ELSE Outcome(<<Fail(200, "")>>,
                 [k \in {j \in DOMAIN sessions : sessions[j].username # sessions[t].username}
                    |-> sessions[k]],
                 stock, orderHistory, delayed)

(* faulty variant: the session is emptied and stays in the store *)
postLogoutKeepingSession(t) ==
    IF ~requireAuth(t) THEN Rejected(Unauthorized)
    ELSE SessionOutcome(Fail(200, ""), t,
                        [sessions[t] EXCEPT !.cart = << >>, !.appliedCoupon = NULL])

postLogout(t) ==
    IF ~requireAuth(t) THEN Rejected(Unauthorized)
    ELSE Outcome(<<Fail(200, "")>>, [k \in DOMAIN sessions \ {t} |-> sessions[k]],
                 stock, orderHistory, delayed)

(* GET /api/inventory; the session is <<>> when the token has none *)
ListedItem(p, session) ==
    [id |-> p.id, price |-> p.price,
     imageUrl |-> IF session # << >> /\ session[1].type \in {"problem", "visual"}
                  THEN "problem-user.jpg" ELSE "img",
     inStock |-> (IF p.id \in DOMAIN stock THEN stock[p.id] ELSE 0) > 0,
     currentStock |-> IF session # << >> /\ session[1].role = "admin" /\ p.id \in DOMAIN stock
                      THEN <<stock[p.id]>> ELSE << >>]

(* a.price - b.price < 0 for lohi, b.price - a.price < 0 for hilo; the    *)
(* price of an item is the price of its product                            *)
ComesBefore(a, b, sort) == IF sort = "lohi" THEN a.price < b.price ELSE a.price > b.price

(* Array.prototype.sort is stable: the item of product i comes behind the *)
(* items that come before it and the earlier items that do not come after *)
(* it                                                                      *)
SortedPosition(i, sort) ==
    1 + Cardinality({j \in 1..Len(inventory) :
                       \/ ComesBefore(inventory[j], inventory[i], sort)
                       \/ ~ComesBefore(inventory[i], inventory[j], sort) /\ j < i})

(* the item at position k: of the product at k, or of the product whose   *)
(* item the sort has put there                                             *)
Listing(session, sort) ==
    [k \in 1..Len(inventory) |->
       ListedItem(inventory[IF sort \in {"lohi", "hilo"}
                            THEN CHOOSE i \in 1..Len(inventory) : SortedPosition(i, sort) = k
                            ELSE k],
                  session)]

(* the handler up to its await or, when it has none, to its response *)
getInventory(t, sort) ==
    LET session == getSession(t)
    IN  IF session # << >> /\ session[1].type = "performance"
        THEN [Outcome(<<>>, sessions, stock, orderHistory, delayed)
                EXCEPT !.listingsDelayed =
                         listingsDelayed \cup {[token |-> t, type |-> session[1].type,
                                                role |-> session[1].role, sort |-> sort]}]
        ELSE Rejected(Ok(200, Listing(session, sort)))

(* faulty variant: the session is looked up again after the await and the *)
(* handler answers nothing when it is gone                                 *)
getInventoryAfterAwaitOfSession(listing) ==
    IF listing.token \in DOMAIN sessions
    THEN [Rejected(Ok(200, Listing(<<sessions[listing.token]>>, listing.sort)))
            EXCEPT !.listingsDelayed = listingsDelayed \ {listing}]
    ELSE Outcome(<<>>, sessions, stock, orderHistory, delayed)

(* the handler after its await: the performance timer has fired; the      *)
(* session is the object the handler found before it slept                 *)
getInventoryAfterAwait(listing) ==
    [Rejected(Ok(200, Listing(<<[type |-> listing.type, role |-> listing.role]>>, listing.sort)))
       EXCEPT !.listingsDelayed = listingsDelayed \ {listing}]

(* GET /api/cart *)
(* faulty variant: the coupon is consumed by the pricing *)
getCartTakingCoupon(t) ==
    IF ~requireAuth(t) THEN Rejected(Unauthorized)
    ELSE SessionOutcome(Ok(200, calculateCartDetails(sessions[t].cart, sessions[t].appliedCoupon)),
                        t, [sessions[t] EXCEPT !.appliedCoupon = NULL])

getCart(t) ==
    IF ~requireAuth(t) THEN Rejected(Unauthorized)
    ELSE Rejected(Ok(200, calculateCartDetails(sessions[t].cart, sessions[t].appliedCoupon)))

(* POST /api/cart; quantity is <<>> when the body has none *)
(* faulty variants: the stock check forgets what the cart already holds;   *)
(* the cap check looks at the request alone                                *)
StockExceededByRequest(current, qty, available) == qty > available
CapExceededByRequest(current, qty) == qty > N(10)

StockExceeded(current, qty, available) == current + qty > available
CapExceeded(current, qty) == current + qty > N(10)

(* faulty variant: the line is pushed whether or not the cart has one *)
AddedToByPush(cart, id, qty) == Append(cart, [productId |-> id, quantity |-> qty])

(* existing ? existing.quantity += qty : cart.push({productId, quantity}) *)
AddedTo(cart, id, qty) ==
    IF LineIndex(cart, id) # 0
    THEN [cart EXCEPT ![LineIndex(cart, id)].quantity = @ + qty]
    ELSE Append(cart, [productId |-> id, quantity |-> qty])

postCart(t, id, quantity) ==
    IF ~requireAuth(t) THEN Rejected(Unauthorized)
    ELSE LET qty == Min(IF quantity = <<>> THEN N(1) ELSE quantity[1], N(10))
             cart == sessions[t].cart
             available == IF id \in DOMAIN stock THEN stock[id] ELSE 0
             idx == LineIndex(cart, id)
             current == IF idx = 0 THEN 0 ELSE cart[idx].quantity
         IN  IF qty < N(1) THEN Rejected(Fail(400, "Invalid input"))
             ELSE IF ProductIndex(id) = 0 THEN Rejected(Fail(404, "Product not found"))
             ELSE IF StockExceeded(current, qty, available)
                  THEN Rejected(Reply(400, "Not enough stock", <<available>>, <<>>))
             ELSE IF CapExceeded(current, qty) THEN Rejected(Fail(400, "Max 10 per item"))
             ELSE CartOutcome(201, t, AddedTo(cart, id, qty))

(* PATCH /api/cart/:productId *)
patchCart(t, id, quantity) ==
    IF ~requireAuth(t) THEN Rejected(Unauthorized)
    ELSE LET cart == sessions[t].cart
             idx == LineIndex(cart, id)
             available == IF id \in DOMAIN stock THEN stock[id] ELSE 0
         IN  IF ~IsInteger(quantity) \/ quantity < N(1) \/ quantity > N(10)
             THEN Rejected(Fail(400, "Quantity 1-10"))
             ELSE IF idx = 0 THEN Rejected(Fail(404, "Not in cart"))
             ELSE IF quantity > available THEN Rejected(Fail(400, "Not enough stock"))
             ELSE CartOutcome(200, t, [cart EXCEPT ![idx].quantity = quantity])

(* DELETE /api/cart/:productId *)
deleteCartProduct(t, seg) ==
    IF ~requireAuth(t) THEN Rejected(Unauthorized)
    ELSE LET cart == sessions[t].cart
             id == NumberOf(seg)
             idx == IF id = <<>> THEN 0 ELSE LineIndex(cart, id[1])
         IN  IF idx = 0 THEN Rejected(Fail(404, "Not in cart"))
             ELSE CartOutcome(200, t,
                     IF cart[idx].quantity > N(1)
                     THEN [cart EXCEPT ![idx].quantity = @ - N(1)]
                     ELSE Splice(cart, idx))

(* DELETE /api/cart/coupon *)
deleteCartCoupon(t) ==
    IF ~requireAuth(t) THEN Rejected(Unauthorized)
    ELSE SessionOutcome(Ok(200, calculateCartDetails(sessions[t].cart, NULL)),
                        t, [sessions[t] EXCEPT !.appliedCoupon = NULL])

(* The DELETE routes under /api/cart in the order app.delete registers     *)
(* them; Express hands a request to the first route whose path matches.    *)
DeleteRoutes == << [path |-> ":productId", handler |-> "deleteCartProduct"],
                   [path |-> "coupon", handler |-> "deleteCartCoupon"] >>

Matches(path, seg) == path = ":productId" \/ path = seg

Dispatch(routes, seg) == routes[FindIndex(routes, LAMBDA r : Matches(r.path, seg))].handler

(* DELETE /api/cart/<seg> *)
deleteCart(t, seg) ==
    IF Dispatch(DeleteRoutes, seg) = "deleteCartProduct"
    THEN deleteCartProduct(t, seg)
    ELSE deleteCartCoupon(t)

(* POST /api/cart/reorder; body is <<>> when orderedProductIds is no array *)
LastLine(cart, id) ==
    IF \E i \in 1..Len(cart) : cart[i].productId = id
    THEN <<cart[CHOOSE i \in 1..Len(cart) :
                  cart[i].productId = id /\ \A j \in (i + 1)..Len(cart) : cart[j].productId # id]>>
    ELSE <<>>

RECURSIVE Flatten(_)
Flatten(ss) == IF ss = <<>> THEN <<>> ELSE Head(ss) \o Flatten(Tail(ss))

ReorderedCart(cart, orderedProductIds) ==
    Flatten([i \in 1..Len(orderedProductIds) |-> LastLine(cart, orderedProductIds[i])])

(* faulty variant: the new cart is assigned before its length is checked *)
postCartReorderAssigningFirst(t, body) ==
    IF ~requireAuth(t) THEN Rejected(Unauthorized)
    ELSE IF body = <<>> THEN Rejected(Fail(400, "orderedProductIds array required"))
    ELSE LET newCart == ReorderedCart(sessions[t].cart, body[1])
         IN  IF Len(newCart) # Len(body[1])
             THEN SessionOutcome(Fail(400, "Invalid product ID"), t,
                                 [sessions[t] EXCEPT !.cart = newCart])
             ELSE CartOutcome(200, t, newCart)

postCartReorder(t, body) ==
    IF ~requireAuth(t) THEN Rejected(Unauthorized)
    ELSE IF body = <<>> THEN Rejected(Fail(400, "orderedProductIds array required"))
    ELSE LET newCart == ReorderedCart(sessions[t].cart, body[1])
         IN  IF Len(newCart) # Len(body[1]) THEN Rejected(Fail(400, "Invalid product ID"))
             ELSE CartOutcome(200, t, newCart)

(* POST /api/cart/coupon *)
postCartCoupon(t, code) ==
    IF ~requireAuth(t) THEN Rejected(Unauthorized)
    ELSE IF ~CouponValid(code)
         THEN SessionOutcome(Fail(400, "Invalid coupon"), t,
                             [sessions[t] EXCEPT !.appliedCoupon = NULL])
         ELSE SessionOutcome(Ok(200, calculateCartDetails(sessions[t].cart, code)), t,
                             [sessions[t] EXCEPT !.appliedCoupon = code])

(* POST /api/checkout *)
(* faulty variant: the postal code is not asked for *)
MissingNames(customer) == customer.firstName = "" \/ customer.lastName = ""

MissingFields(customer) ==
    customer.firstName = "" \/ customer.lastName = "" \/ customer.postalCode = ""

(* faulty variant: the behaviour type is looked up in the role *)
AlwaysFailsByRole(session) == session.role = "error"

AlwaysFails(session) == session.type = "error"

(* faulty variant: the loop stops after the first line *)
DeductStockOfFirstLine(stk, cart) ==
    [stk EXCEPT ![Head(cart).productId] = @ - Head(cart).quantity]

(* the deduct-stock loop *)
RECURSIVE DeductStock(_, _)
DeductStock(stk, cart) ==
    IF cart = <<>> THEN stk
    ELSE DeductStock([stk EXCEPT ![Head(cart).productId] = @ - Head(cart).quantity], Tail(cart))

(* { orderId, username, customer, ...details } *)
OrderOf(orderId, username, customer, details) ==
    [orderId |-> orderId, username |-> username, customer |-> customer,
     items |-> details.items, itemTotal |-> details.itemTotal,
     discount |-> details.discount, coupon |-> details.coupon,
     subtotal |-> details.subtotal, tax |-> details.tax, total |-> details.total]

BuildOrder(orderId, session, customer) ==
    OrderOf(orderId, session.username, customer,
            calculateCartDetails(session.cart, session.appliedCoupon))

(* faulty variant: the history keeps the newest order only *)
OrderedAlone(t, order) ==
    Outcome(<<Ok(201, order)>>,
            [sessions EXCEPT ![t].lastCheckout = <<order>>,
                             ![t].cart = << >>,
                             ![t].appliedCoupon = NULL],
            DeductStock(stock, sessions[t].cart),
            <<order>>,
            delayed)

(* faulty variant: the stock is left as it is *)
OrderedFromNowhere(t, order) ==
    Outcome(<<Ok(201, order)>>,
            [sessions EXCEPT ![t].lastCheckout = <<order>>,
                             ![t].cart = << >>,
                             ![t].appliedCoupon = NULL],
            stock,
            Append(orderHistory, order),
            delayed)

(* the order is stored, the stock deducted, the cart and coupon cleared *)
Ordered(t, order) ==
    Outcome(<<Ok(201, order)>>,
            [sessions EXCEPT ![t].lastCheckout = <<order>>,
                             ![t].cart = << >>,
                             ![t].appliedCoupon = NULL],
            DeductStock(stock, sessions[t].cart),
            Append(orderHistory, order),
            delayed)

(* the handler up to its await or, when it has none, to its response *)
postCheckout(t, customer, orderId) ==
    IF ~requireAuth(t) THEN Rejected(Unauthorized)
    ELSE IF MissingFields(customer) THEN Rejected(Fail(400, "All fields required"))
    ELSE IF sessions[t].cart = <<>> THEN Rejected(Fail(400, "Cart empty"))
    ELSE IF AlwaysFails(sessions[t])
         THEN Outcome(<<>>, sessions, stock, orderHistory, delayed \cup {t})
    ELSE Ordered(t, BuildOrder(orderId, sessions[t], customer))

(* the handler after its await: the error_user timer has fired *)
checkoutFailed(t) ==
    Outcome(<<Fail(500, "Checkout failed (error_user)")>>, sessions, stock, orderHistory,
            delayed \ {t})

(* POST /api/reset *)
(* faulty variant: every session of the user is reset *)
postResetOfUser(t) ==
    IF ~requireAuth(t) THEN Rejected(Unauthorized)
    ELSE Outcome(<<Fail(200, "")>>,
                 [k \in DOMAIN sessions |->
                    IF sessions[k].username = sessions[t].username
                    THEN [sessions[k] EXCEPT !.cart = << >>, !.appliedCoupon = NULL]
                    ELSE sessions[k]],
                 stock, orderHistory, delayed)

postReset(t) ==
    IF ~requireAuth(t) THEN Rejected(Unauthorized)
    ELSE SessionOutcome(Fail(200, ""), t,
                        [sessions[t] EXCEPT !.cart = << >>, !.appliedCoupon = NULL])

(* POST /api/admin/products; the price in hundredths of a cent, "" for a  *)
(* string the body does not have, initialStock <<>> when it has none       *)
TrimmedLength(name) ==
    CASE name = "" -> 0
      [] name = " ab " -> 2
      [] name = "Hat" -> 3

Clamp(lo, x, hi) == IF x < lo THEN lo ELSE IF x > hi THEN hi ELSE x

postAdminProducts(t, body) ==
    IF ~requireAdmin(t) THEN Rejected(Forbidden)
    ELSE IF body.name = "" \/ TrimmedLength(body.name) < 3
         THEN Rejected(Fail(400, "Valid name required"))
    ELSE IF body.price <= 0 THEN Rejected(Fail(400, "Valid price required"))
    ELSE IF body.img = "" THEN Rejected(Fail(400, "Image filename required"))
    ELSE LET initialStock == IF body.initialStock = <<>> THEN N(10) ELSE body.initialStock[1]
             newProduct == [id |-> nextProductId, price |-> ToFixed2(body.price, FALSE)]
         IN  CatalogOutcome(Ok(201, newProduct),
                            Append(inventory, newProduct),
                            nextProductId + 1,
                            (newProduct.id :> Clamp(0, initialStock, N(100))) @@ stock)

(* DELETE /api/admin/products/:productId *)
(* faulty variant: the carts are not looked at *)
InUseNever(id) == FALSE

(* some cart of some session has a line of the product *)
InUse(id) == \E k \in DOMAIN sessions : \E i \in 1..Len(sessions[k].cart) :
                sessions[k].cart[i].productId = id

deleteAdminProduct(t, id) ==
    IF ~requireAdmin(t) THEN Rejected(Forbidden)
    ELSE IF ProductIndex(id) = 0 THEN Rejected(Fail(404, "Product not found"))
    ELSE IF InUse(id)
         THEN Rejected(Fail(409, "Product is in one or more carts - cannot delete"))
    ELSE CatalogOutcome(Ok(200, inventory[ProductIndex(id)]),
                        Splice(inventory, ProductIndex(id)),
                        nextProductId,
                        [k \in DOMAIN stock \ {id} |-> stock[k]])

(* PATCH /api/admin/stock/:productId *)
(* faulty variant: a negative quantity is let through *)
patchAdminStockUnsigned(t, id, quantity) ==
    IF ~requireAdmin(t) THEN Rejected(Forbidden)
    ELSE IF ProductIndex(id) = 0 THEN Rejected(Fail(404, "Not found"))
    ELSE IF ~IsInteger(quantity) THEN Rejected(Fail(400, "Invalid quantity"))
    ELSE Outcome(<<Fail(200, "")>>, sessions, [stock EXCEPT ![id] = quantity],
                 orderHistory, delayed)

patchAdminStock(t, id, quantity) ==
    IF ~requireAdmin(t) THEN Rejected(Forbidden)
    ELSE IF ProductIndex(id) = 0 THEN Rejected(Fail(404, "Not found"))
    ELSE IF ~IsInteger(quantity) \/ quantity < 0 THEN Rejected(Fail(400, "Invalid quantity"))
    ELSE Outcome(<<Fail(200, "")>>, sessions, [stock EXCEPT ![id] = quantity],
                 orderHistory, delayed)

(* GET /api/admin/stock *)
getAdminStock(t) ==
    IF ~requireAdmin(t) THEN Rejected(Forbidden)
    ELSE Rejected(Ok(200, [i \in 1..Len(inventory) |->
                             [id |-> inventory[i].id,
                              currentStock |-> IF inventory[i].id \in DOMAIN stock
                                               THEN stock[inventory[i].id] ELSE 0]]))

(* GET /api/admin/orders: the number of orders and the last 20 of them *)
getAdminOrders(t) ==
    IF ~requireAdmin(t) THEN Rejected(Forbidden)
    ELSE Rejected(Ok(200, [total |-> Len(orderHistory),
                           recent |-> SubSeq(orderHistory,
                                             IF Len(orderHistory) > 20
                                             THEN Len(orderHistory) - 19 ELSE 1,
                                             Len(orderHistory))]))

-----------------------------------------------------------------------------
Init ==
    /\ inventory = InitialInventory
    /\ nextProductId = 6
    /\ stock = [id \in {InitialInventory[i].id : i \in 1..Len(InitialInventory)} |-> N(MAX_STOCK)]
    /\ sessions = << >>
    /\ orderHistory = << >>
    /\ nextToken = 1
    /\ delayed = {}
    /\ requests = 0
    /\ usersV10 = users
    /\ loginsDelayed = {}
    /\ listingsDelayed = {}
    /\ rateLimitStore = << >>
    /\ now = 0

(* the state a handler's outcome leaves *)
Install(o) ==
    \E left \in {o} :
        /\ sessions' = left.sessions
        /\ stock' = left.stock
        /\ orderHistory' = left.orderHistory
        /\ delayed' = left.delayed
        /\ inventory' = left.inventory
        /\ nextProductId' = left.nextProductId
        /\ loginsDelayed' = left.loginsDelayed
        /\ listingsDelayed' = left.listingsDelayed
        /\ UNCHANGED <<usersV10, rateLimitStore, now>>

(* a request arrives and its handler runs to its response or its await *)
Serve(o) ==
    /\ requests' = requests + 1
    /\ Install(o)

(* a token is left for every login that sleeps *)
Login(cred) ==
    /\ nextToken + Cardinality(loginsDelayed) <= MaxTokens
    /\ Serve(postLogin(cred, nextToken))
    /\ nextToken' = IF nextToken \in DOMAIN sessions' THEN nextToken + 1 ELSE nextToken

Logout(t) == Serve(postLogout(t)) /\ UNCHANGED nextToken
GetCart(t) == Serve(getCart(t)) /\ UNCHANGED nextToken
AddItem(t, id, quantity) == Serve(postCart(t, id, quantity)) /\ UNCHANGED nextToken
UpdateQuantity(t, id, quantity) == Serve(patchCart(t, id, quantity)) /\ UNCHANGED nextToken
DeleteCart(t, seg) == Serve(deleteCart(t, seg)) /\ UNCHANGED nextToken
Reorder(t, body) == Serve(postCartReorder(t, body)) /\ UNCHANGED nextToken
ApplyCoupon(t, code) == Serve(postCartCoupon(t, code)) /\ UNCHANGED nextToken
Reset(t) == Serve(postReset(t)) /\ UNCHANGED nextToken
SetStock(t, id, quantity) == Serve(patchAdminStock(t, id, quantity)) /\ UNCHANGED nextToken
CreateProduct(t, body) == Serve(postAdminProducts(t, body)) /\ UNCHANGED nextToken
DeleteProduct(t, id) == Serve(deleteAdminProduct(t, id)) /\ UNCHANGED nextToken
GetAdminStock(t) == Serve(getAdminStock(t)) /\ UNCHANGED nextToken
GetAdminOrders(t) == Serve(getAdminOrders(t)) /\ UNCHANGED nextToken

(* at most one checkout of a token sleeps at a time *)
Checkout(t, customer, orderId) ==
    /\ t \notin delayed
    /\ Serve(postCheckout(t, customer, orderId))
    /\ UNCHANGED nextToken

CheckoutFailed(t) ==
    /\ t \in delayed
    /\ Install(checkoutFailed(t))
    /\ UNCHANGED <<nextToken, requests>>

(* the timer of a sleeping login fires *)
LoginAfterAwait(login) ==
    /\ login \in loginsDelayed
    /\ Install(postLoginAfterAwait(login, nextToken))
    /\ nextToken' = nextToken + 1
    /\ UNCHANGED requests

(* at most one listing of a token sleeps at a time *)
GetInventory(t, sort) ==
    /\ \A listing \in listingsDelayed : listing.token # t
    /\ Serve(getInventory(t, sort))
    /\ UNCHANGED nextToken

(* the timer of a sleeping listing fires *)
GetInventoryAfterAwait(listing) ==
    /\ listing \in listingsDelayed
    /\ Install(getInventoryAfterAwait(listing))
    /\ UNCHANGED <<nextToken, requests>>

-----------------------------------------------------------------------------
(* The server under every request of the input sets *)

Budget == requests < MaxRequests

(* the requests of the shoppers: every request but an admin's *)
CustomerNext ==
    \/ \E cred \in Credentials : Budget /\ Login(cred)
    \/ \E t \in Tokens : Budget /\ Logout(t)
    \/ \E t \in Tokens : Budget /\ GetCart(t)
    \/ \E t \in Tokens, id \in ProductIds, q \in AddQuantities : Budget /\ AddItem(t, id, q)
    \/ \E t \in Tokens, id \in CartIds, q \in PatchQuantities : Budget /\ UpdateQuantity(t, id, q)
    \/ \E t \in Tokens, seg \in Segments : Budget /\ DeleteCart(t, seg)
    \/ \E t \in Tokens, l \in ReorderLists : Budget /\ Reorder(t, <<l>>)
    \/ \E t \in Tokens : Budget /\ Reorder(t, <<>>)
    \/ \E t \in Tokens, code \in CouponCodes : Budget /\ ApplyCoupon(t, code)
    \/ \E t \in Tokens, c \in Customers, o \in OrderIds : Budget /\ Checkout(t, c, o)
    \/ \E t \in Tokens : CheckoutFailed(t)
    \/ \E t \in Tokens : Budget /\ Reset(t)

Next ==
    \/ CustomerNext
    \/ \E t \in Tokens, id \in StockIds, q \in StockQuantities : Budget /\ SetStock(t, id, q)

Spec == Init /\ [][Next]_vars

(* the server while no admin request arrives *)
CustomerSpec == Init /\ [][CustomerNext]_vars

-----------------------------------------------------------------------------
(* The server under shoppers only: customers log in, put one product in   *)
(* their carts and check out; no admin request arrives.                    *)

ShopBudget == requests < MaxShopRequests
Shoppers ==
    { [username |-> "standard_user", password |-> "secret_sauce"],
      [username |-> "error_user", password |-> "secret_sauce"] }
FullCustomer == [firstName |-> "A", lastName |-> "B", postalCode |-> "1"]

ShopNext ==
    \/ \E cred \in Shoppers : ShopBudget /\ Login(cred)
    \/ \E t \in Tokens : ShopBudget /\ AddItem(t, 0, <<N(6)>>)
    \/ \E t \in Tokens, code \in CouponCodes : ShopBudget /\ ApplyCoupon(t, code)
    \/ \E t \in Tokens, o \in OrderIds : ShopBudget /\ Checkout(t, FullCustomer, o)
    \/ \E t \in Tokens : CheckoutFailed(t)

ShopSpec == Init /\ [][ShopNext]_vars

-----------------------------------------------------------------------------
(* The server under an admin who creates and deletes products and sets the *)
(* stock while a shopper fills a cart, checks out and logs out.            *)

CatalogBudget == requests < MaxCatalogRequests
CatalogCredentials ==
    { [username |-> "standard_user", password |-> "secret_sauce"],
      [username |-> "admin", password |-> "admin123"] }
ProductBody(name, price, img, initialStock) ==
    [name |-> name, price |-> price, img |-> img, initialStock |-> initialStock]
ProductBodies ==
    { ProductBody("Hat", 129900, "hat.jpg", <<>>),
      ProductBody("Hat", 129949, "hat.jpg", <<N(0 - 1)>>),
      ProductBody(" ab ", 129900, "hat.jpg", <<>>),
      ProductBody("Hat", 0, "hat.jpg", <<>>),
      ProductBody("Hat", 129900, "", <<>>) }
DeleteIds == {0, 6, 7}
CatalogStockIds == {0, 6}

CatalogNext ==
    \/ \E cred \in CatalogCredentials : CatalogBudget /\ Login(cred)
    \/ \E t \in Tokens : CatalogBudget /\ Logout(t)
    \/ \E t \in Tokens, id \in CatalogStockIds : CatalogBudget /\ AddItem(t, id, <<N(1)>>)
    \/ \E t \in Tokens : CatalogBudget /\ DeleteCart(t, "0")
    \/ \E t \in Tokens : CatalogBudget /\ Checkout(t, FullCustomer, "ORDER-A")
    \/ \E t \in Tokens, body \in ProductBodies : CatalogBudget /\ CreateProduct(t, body)
    \/ \E t \in Tokens, id \in DeleteIds : CatalogBudget /\ DeleteProduct(t, id)
    \/ \E t \in Tokens, id \in CatalogStockIds, q \in StockQuantities :
          CatalogBudget /\ SetStock(t, id, q)
    \/ \E t \in Tokens : CatalogBudget /\ GetAdminStock(t)
    \/ \E t \in Tokens : CatalogBudget /\ GetAdminOrders(t)

CatalogSpec == Init /\ [][CatalogNext]_vars

-----------------------------------------------------------------------------
(* The server with its timers: a performance user logs in and lists the    *)
(* catalog, an error user checks out, sessions are logged out while their  *)
(* requests sleep. A timer that was set fires: Node runs the callback of   *)
(* setTimeout once its delay is over, whatever requests arrive meanwhile.  *)

DelayBudget == requests < MaxDelayRequests
DelayCredentials ==
    { [username |-> "performance_glitch_user", password |-> "secret_sauce"],
      [username |-> "error_user", password |-> "secret_sauce"] }
Sorts == {"", "hilo"}

(* the logins and the listings that may sleep *)
SleepingLogins ==
    { [user |-> users[i], request |-> r] :
        i \in {k \in 1..Len(users) : users[k].type = "performance"}, r \in 0..MaxDelayRequests }
SleepingListings == [token : Tokens, type : {"performance"}, role : {"user"}, sort : Sorts]

DelayNext ==
    \/ \E cred \in DelayCredentials : DelayBudget /\ Login(cred)
    \/ \E login \in SleepingLogins : LoginAfterAwait(login)
    \/ \E t \in Tokens : DelayBudget /\ Logout(t)
    \/ \E t \in Tokens : DelayBudget /\ AddItem(t, 0, <<N(1)>>)
    \/ \E t \in Tokens : DelayBudget /\ Checkout(t, FullCustomer, "ORDER-A")
    \/ \E t \in Tokens : CheckoutFailed(t)
    \/ \E t \in Tokens, sort \in Sorts : DelayBudget /\ GetInventory(t, sort)
    \/ \E listing \in SleepingListings : GetInventoryAfterAwait(listing)

(* a timer fires; with finitely many sleepers each of them wakes in the end *)
TimersFire ==
    /\ WF_vars(\E t \in Tokens : CheckoutFailed(t))
    /\ WF_vars(\E login \in SleepingLogins : LoginAfterAwait(login))
    /\ WF_vars(\E listing \in SleepingListings : GetInventoryAfterAwait(listing))

DelaySpec == Init /\ [][DelayNext]_vars /\ TimersFire

-----------------------------------------------------------------------------
(* The pricing of carts: a shopper has logged in and filled a cart, then   *)
(* applies coupons and asks for the priced cart.                           *)

Line(id, n) == [productId |-> id, quantity |-> N(n)]

PricingCarts ==
    {<< >>}
    \cup {<<Line(id, n)>> : id \in CartIds, n \in 1..LINE_CAP}
    \cup {<<Line(0, n), Line(1, m)>> : n \in 1..MaxPairQuantity, m \in 1..MaxPairQuantity}

PricingCodes == {"SAVE20", "TEST50", "BOGUS"}

PricingInit ==
    /\ inventory = InitialInventory
    /\ nextProductId = 6
    /\ stock = [id \in {InitialInventory[i].id : i \in 1..Len(InitialInventory)} |-> N(MAX_STOCK)]
    /\ \E cart \in PricingCarts :
          sessions = <<[NewSession(users[1]) EXCEPT !.cart = cart]>>
    /\ orderHistory = << >>
    /\ nextToken = 2
    /\ delayed = {}
    /\ requests = 0
    /\ usersV10 = users
    /\ loginsDelayed = {}
    /\ listingsDelayed = {}
    /\ rateLimitStore = << >>
    /\ now = 0

PricingBudget == requests < MaxPricingRequests

PricingNext ==
    \/ PricingBudget /\ GetCart(1)
    \/ \E code \in PricingCodes : PricingBudget /\ ApplyCoupon(1, code)

PricingSpec == PricingInit /\ [][PricingNext]_vars

-----------------------------------------------------------------------------
(* The coupons of server version 3.0: the same sessions, stock and pricing *)
(* with a coupon table of three codes.                                     *)

usersV3 ==
    << [username |-> "standard_user", password |-> "secret_sauce", type |-> "standard"],
       [username |-> "locked_out_user", password |-> "secret_sauce", type |-> "locked"],
       [username |-> "problem_user", password |-> "secret_sauce", type |-> "problem"],
       [username |-> "performance_glitch_user", password |-> "secret_sauce", type |-> "performance"],
       [username |-> "visual_user", password |-> "secret_sauce", type |-> "visual"],
       [username |-> "error_user", password |-> "secret_sauce", type |-> "error"] >>

(* coupons: code -> discount, in percent *)
coupons ==
    [c \in {"SAVE20", "FREESHIP", "TEST50"} |->
        CASE c = "SAVE20" -> 20 [] c = "FREESHIP" -> 0 [] c = "TEST50" -> 50]

(* the object version 3.0 returns: couponCode in the place of coupon *)
DetailsV3(details, couponCode) ==
    [items |-> details.items, itemTotal |-> details.itemTotal,
     discount |-> details.discount, couponCode |-> couponCode,
     subtotal |-> details.subtotal, tax |-> details.tax, total |-> details.total]

calculateCartDetailsV3(cart, appliedCoupon) ==
    DetailsV3(PricedCart(cart, appliedCoupon, coupons),
              IF appliedCoupon # NULL /\ Truthy(coupons, appliedCoupon)
              THEN appliedCoupon ELSE NULL)

postLoginV3(cred, token) ==
    LET i == FindIndex(usersV3, LAMBDA u : u.username = cred.username /\ u.password = cred.password)
    IN  IF i = 0 THEN Rejected(Fail(401, "Invalid credentials"))
        ELSE IF usersV3[i].type = "locked"
             THEN Rejected(Fail(403, "Sorry, this user has been locked out."))
        ELSE Outcome(<<Ok(200, [token |-> token, username |-> cred.username, type |-> usersV3[i].type])>>,
                     sessions @@ (token :> [username |-> usersV3[i].username,
                                            type |-> usersV3[i].type, cart |-> << >>,
                                            appliedCoupon |-> NULL, lastCheckout |-> << >>]),
                     stock, orderHistory, delayed)

(* a handler that writes the cart of session t and sends the priced cart *)
CartOutcomeV3(status, t, cart) ==
    SessionOutcome(Ok(status, calculateCartDetailsV3(cart, sessions[t].appliedCoupon)),
                   t, [sessions[t] EXCEPT !.cart = cart])

getCartV3(t) ==
    IF ~requireAuth(t) THEN Rejected(Unauthorized)
    ELSE Rejected(Ok(200, calculateCartDetailsV3(sessions[t].cart, sessions[t].appliedCoupon)))

postCartV3(t, id, quantity) ==
    IF ~requireAuth(t) THEN Rejected(Unauthorized)
    ELSE LET qty == Min(IF quantity = <<>> THEN N(1) ELSE quantity[1], N(10))
             cart == sessions[t].cart
             currentStock == IF id \in DOMAIN stock THEN stock[id] ELSE 0
             idx == LineIndex(cart, id)
             currentQty == IF idx = 0 THEN 0 ELSE cart[idx].quantity
         IN  IF qty < N(1) THEN Rejected(Fail(400, "Invalid input"))
             ELSE IF ProductIndex(id) = 0 THEN Rejected(Fail(404, "Product not found"))
             ELSE IF StockExceeded(currentQty, qty, currentStock)
                  THEN Rejected(Reply(400, "Not enough stock", <<currentStock>>, <<>>))
             ELSE IF CapExceeded(currentQty, qty) THEN Rejected(Fail(400, "Maximum 10 per item"))
             ELSE CartOutcomeV3(201, t, AddedTo(cart, id, qty))

(* POST /api/cart/coupon; code is "" when the body has none *)
postCartCouponV3(t, code) ==
    IF ~requireAuth(t) THEN Rejected(Unauthorized)
    ELSE IF code = "" \/ ~Truthy(coupons, code)
         THEN SessionOutcome(Fail(400, "Invalid coupon code"), t,
                             [sessions[t] EXCEPT !.appliedCoupon = NULL])
         ELSE SessionOutcome(Ok(200, calculateCartDetailsV3(sessions[t].cart, code)), t,
                             [sessions[t] EXCEPT !.appliedCoupon = code])

LoginV3(cred) ==
    /\ nextToken <= MaxTokens
    /\ Serve(postLoginV3(cred, nextToken))
    /\ nextToken' = IF nextToken \in DOMAIN sessions' THEN nextToken + 1 ELSE nextToken

AddItemV3(t, id, quantity) == Serve(postCartV3(t, id, quantity)) /\ UNCHANGED nextToken
GetCartV3(t) == Serve(getCartV3(t)) /\ UNCHANGED nextToken
ApplyCouponV3(t, code) == Serve(postCartCouponV3(t, code)) /\ UNCHANGED nextToken

CouponCodesV3 == {"SAVE20", "FREESHIP", "TEST50", "BOGUS", ""}

CouponBudget == requests < MaxCouponRequests

CouponNextV3 ==
    \/ \E cred \in Credentials : CouponBudget /\ LoginV3(cred)
    \/ \E t \in Tokens, id \in ProductIds, q \in {<<>>, <<N(3)>>} :
          CouponBudget /\ AddItemV3(t, id, q)
    \/ \E t \in Tokens : CouponBudget /\ GetCartV3(t)
    \/ \E t \in Tokens, code \in CouponCodesV3 : CouponBudget /\ ApplyCouponV3(t, code)

CouponSpecV3 == Init /\ [][CouponNextV3]_vars

-----------------------------------------------------------------------------
(* The accounts of server version 10 (server.js:344-789): users register,  *)
(* log in, delete their account, and an admin deletes accounts. A login of *)
(* a performance user sleeps 2.5 s between finding the user and storing    *)
(* the session.                                                            *)

(* what an account handler leaves behind; the response is <<>> while the   *)
(* handler sleeps                                                          *)
AccountOutcome(resp, sess, usrs, logins) ==
    [response |-> resp, sessions |-> sess, users |-> usrs, loginsDelayed |-> logins]

AccountRejected(r) == AccountOutcome(<<r>>, sessions, usersV10, loginsDelayed)

UserIndex(username) == FindIndex(usersV10, LAMBDA u : u.username = username)

(* the sessions that are not of a user *)
SessionsNotOf(username) ==
    [k \in {j \in DOMAIN sessions : sessions[j].username # username} |-> sessions[k]]

(* s.length of the strings the requests carry *)
Length(str) ==
    CASE str = "ab" -> 2
      [] str = "newbie" -> 6
      [] str = "secret_sauce" -> 12

(* POST /api/register; "" for a field the body does not have *)
postRegister(username, password) ==
    IF username = "" \/ password = ""
    THEN AccountRejected(Fail(400, "username and password are required"))
    ELSE IF Length(username) < 3 \/ Length(password) < 5
    THEN AccountRejected(Fail(400, "username >= 3 chars, password >= 5 chars"))
    ELSE IF UserIndex(username) # 0 THEN AccountRejected(Fail(409, "Username already taken"))
    ELSE AccountOutcome(<<Fail(201, "")>>, sessions,
                        Append(usersV10, [username |-> username, password |-> password,
                                          type |-> "standard", role |-> "user"]),
                        loginsDelayed)

(* POST /api/login up to its await or, when it has none, to its response;  *)
(* request tells the sleeping logins apart                                 *)
postLoginV10(cred, token, request) ==
    LET i == FindIndex(usersV10,
                       LAMBDA u : u.username = cred.username /\ u.password = cred.password)
    IN  IF i = 0 THEN AccountRejected(Fail(401, "Invalid credentials"))
        ELSE IF usersV10[i].type = "locked"
             THEN AccountRejected(Fail(403, "Sorry, this user has been locked out."))
        ELSE IF usersV10[i].type = "performance"
             THEN AccountOutcome(<<>>, sessions, usersV10,
                                 loginsDelayed \cup {[user |-> usersV10[i], request |-> request]})
        ELSE AccountOutcome(<<Ok(200, [token |-> token, username |-> cred.username,
                                       role |-> usersV10[i].role])>>,
                            sessions @@ (token :> NewSession(usersV10[i])),
                            usersV10, loginsDelayed)

(* the login after its await: the timer has fired; user is the object the  *)
(* handler found before it slept                                           *)
loginResumed(login, token) ==
    AccountOutcome(<<Ok(200, [token |-> token, username |-> login.user.username,
                              role |-> login.user.role])>>,
                   sessions @@ (token :> NewSession(login.user)),
                   usersV10, loginsDelayed \ {login})

(* DELETE /api/me *)
deleteMe(t) ==
    IF ~requireAuth(t) THEN AccountRejected(Unauthorized)
    ELSE IF sessions[t].username = "admin"
         THEN AccountRejected(Fail(403, "Admin cannot delete their own account"))
    ELSE IF UserIndex(sessions[t].username) = 0 THEN AccountRejected(Fail(404, "User not found"))
    ELSE AccountOutcome(<<Fail(200, "")>>, SessionsNotOf(sessions[t].username),
                        Splice(usersV10, UserIndex(sessions[t].username)), loginsDelayed)

(* DELETE /api/admin/users/:username *)
deleteAdminUser(t, username) ==
    IF ~requireAdmin(t) THEN AccountRejected(Forbidden)
    ELSE IF username = "admin" THEN AccountRejected(Fail(403, "Cannot delete admin"))
    ELSE IF UserIndex(username) = 0 THEN AccountRejected(Fail(404, "User not found"))
    ELSE AccountOutcome(<<Fail(200, "")>>, SessionsNotOf(username),
                        Splice(usersV10, UserIndex(username)), loginsDelayed)

InstallV10(o) ==
    /\ sessions' = o.sessions
    /\ usersV10' = o.users
    /\ loginsDelayed' = o.loginsDelayed
    /\ UNCHANGED listingsDelayed
    /\ UNCHANGED <<inventory, nextProductId, stock, orderHistory, delayed, rateLimitStore, now>>

ServeV10(o) ==
    /\ requests' = requests + 1
    /\ InstallV10(o)

Register(username, password) == ServeV10(postRegister(username, password)) /\ UNCHANGED nextToken

LoginV10(cred) ==
    /\ nextToken <= MaxTokens
    /\ ServeV10(postLoginV10(cred, nextToken, requests))
    /\ nextToken' = IF nextToken \in DOMAIN sessions' THEN nextToken + 1 ELSE nextToken

LoginResumed(login) ==
    /\ login \in loginsDelayed
    /\ nextToken <= MaxTokens
    /\ InstallV10(loginResumed(login, nextToken))
    /\ nextToken' = nextToken + 1
    /\ UNCHANGED requests

DeleteMe(t) == ServeV10(deleteMe(t)) /\ UNCHANGED nextToken
DeleteUser(t, username) == ServeV10(deleteAdminUser(t, username)) /\ UNCHANGED nextToken

AccountBudget == requests < MaxAccountRequests
AccountCredentials ==
    { [username |-> "performance_glitch_user", password |-> "secret_sauce"],
      [username |-> "admin", password |-> "admin123"],
      [username |-> "newbie", password |-> "secret_sauce"] }
RegisterNames == {"newbie", "ab", ""}
DeleteNames == {"performance_glitch_user", "admin", "nobody"}

AccountNext ==
    \/ \E name \in RegisterNames : AccountBudget /\ Register(name, "secret_sauce")
    \/ \E cred \in AccountCredentials : AccountBudget /\ LoginV10(cred)
    \/ \E login \in loginsDelayed : LoginResumed(login)
    \/ \E t \in Tokens : AccountBudget /\ Logout(t)
    \/ \E t \in Tokens : AccountBudget /\ DeleteMe(t)
    \/ \E t \in Tokens, name \in DeleteNames : AccountBudget /\ DeleteUser(t, name)

AccountSpec == Init /\ [][AccountNext]_vars

-----------------------------------------------------------------------------
(* The rate limiter of the JWT server (part_000:16-77), the first          *)
(* middleware of every request.                                            *)

windowMs == 15 * 60 * 1000

authPaths == {"/api/login", "/api/register", "/api/refresh"}

(* isAdmin ? 1000 : isAuthenticated ? 500 : 100; tier is what jwt.verify   *)
(* makes of the bearer token                                               *)
Limit(tier) ==
    CASE tier = "admin" -> 1000
      [] tier = "authenticated" -> 500
      [] tier = "anonymous" -> 100

(* Math.ceil(ms / 1000), ms >= 0 *)
CeilSeconds(ms) == (ms + 999) \div 1000

(* what the limiter leaves behind: 429 with its error, or next() *)
Limited(error, retryAfter, store) ==
    [status |-> 429, error |-> error, retryAfter |-> retryAfter, store |-> store]
Admitted(store) == [status |-> 200, error |-> "", retryAfter |-> 0, store |-> store]

(* faulty variant: a window is never over *)
InWindowForever(ip) == ip \in DOMAIN rateLimitStore

(* the record of the ip is in the store and its window is not over *)
InWindow(ip) == ip \in DOMAIN rateLimitStore /\ ~(now > rateLimitStore[ip].resetTime)

(* let record = rateLimitStore.get(ip), or a new object *)
RecordOf(ip) ==
    IF InWindow(ip) THEN rateLimitStore[ip]
    ELSE [count |-> 0, authCount |-> 0, resetTime |-> now + windowMs]

(* record.authCount++ writes the object in the store when record is that   *)
(* object, and a local object when record is new                           *)
StoreWith(ip, record) ==
    IF InWindow(ip) THEN [rateLimitStore EXCEPT ![ip] = record] ELSE rateLimitStore

(* faulty variant: the general check looks at the limit of administrators  *)
LimitReachedOfAdmin(record, tier) == record.count >= Limit("admin")

LimitReached(record, tier) == record.count >= Limit(tier)

(* faulty variant: the authentication check lets one more through *)
AuthLimitReachedLate(record) == record.authCount > 10

AuthLimitReached(record) == record.authCount >= 10

(* the general check on the record as the authentication check left it *)
ApplyLimit(ip, tier, record) ==
    IF LimitReached(record, tier)
    THEN Limited("Too many requests", CeilSeconds(record.resetTime - now), StoreWith(ip, record))
    ELSE Admitted((ip :> [record EXCEPT !.count = @ + 1]) @@ rateLimitStore)

rateLimiter(ip, tier, path) ==
    IF path \in authPaths
    THEN IF AuthLimitReached(RecordOf(ip))
         THEN Limited("Too many attempts. Try again later.",
                      CeilSeconds(RecordOf(ip).resetTime - now), rateLimitStore)
         ELSE ApplyLimit(ip, tier, [RecordOf(ip) EXCEPT !.authCount = @ + 1])
    ELSE ApplyLimit(ip, tier, RecordOf(ip))

(* a request arrives *)
Request(ip, tier, path) ==
    /\ rateLimitStore' = rateLimiter(ip, tier, path).store
    /\ UNCHANGED <<inventory, nextProductId, stock, sessions, orderHistory, nextToken, delayed,
                   requests, usersV10, loginsDelayed, listingsDelayed, now>>

(* time passes *)
Tick(ms) ==
    /\ now + ms <= MaxWindows * windowMs + 1
    /\ now' = now + ms
    /\ UNCHANGED <<inventory, nextProductId, stock, sessions, orderHistory, nextToken, delayed,
                   requests, usersV10, loginsDelayed, listingsDelayed, rateLimitStore>>

Ips == {"10.0.0.1"}
Tiers == {"anonymous", "authenticated", "admin"}
Paths == {"/api/login", "/api/cart"}
Intervals == {windowMs, windowMs + 1}

RateNext ==
    \/ \E ip \in Ips, tier \in Tiers, path \in Paths : Request(ip, tier, path)
    \/ \E ms \in Intervals : Tick(ms)

RateSpec == Init /\ [][RateNext]_vars
-----------------------------------------------------------------------------
(* Notions the properties are stated in *)

CartOf(t) == sessions[t].cart
CartIdsOf(cart) == {cart[i].productId : i \in 1..Len(cart)}
LinesOf(cart) == {cart[i] : i \in 1..Len(cart)}

(* the quantity a session holds of a product, and the quantity in stock *)
Held(t, id) ==
    IF id \in CartIdsOf(CartOf(t))
    THEN CartOf(t)[CHOOSE i \in 1..Len(CartOf(t)) :
                     /\ CartOf(t)[i].productId = id
                     /\ \A j \in 1..(i - 1) : CartOf(t)[j].productId # id].quantity
    ELSE 0
InStock(id) == IF id \in DOMAIN stock THEN stock[id] ELSE 0
InCatalog(id) == \E i \in 1..Len(inventory) : inventory[i].id = id

(* the quantity an add request asks for: 1 by default, at most 10 *)
Asked(quantity) ==
    IF quantity = <<>> THEN N(1)
    ELSE IF quantity[1] > N(10) THEN N(10) ELSE quantity[1]

(* an outcome that leaves the maps and arrays as they are *)
WritesNothing(o) ==
    /\ o.sessions = sessions
    /\ o.stock = stock
    /\ o.orderHistory = orderHistory
    /\ o.delayed = delayed
    /\ o.inventory = inventory
    /\ o.nextProductId = nextProductId

(* a request that wrote nothing *)
NothingWritten == UNCHANGED <<inventory, nextProductId, stock, sessions, orderHistory, delayed>>

(* the session is one of a shopper whose checkout goes through to the stock *)
CanCheckOut(t, customer) ==
    /\ t \in DOMAIN sessions
    /\ ~MissingFields(customer)
    /\ CartOf(t) # << >>

(* C1: the stock of every product is at least 0 in every reachable state. *)
C1_StockNeverNegative == \A id \in DOMAIN stock : stock[id] >= 0

(* C2: a checkout with a cart line that asks for more than is in stock    *)
(* is answered with an error and writes nothing: no stock is deducted,     *)
(* cart and coupon stay, no order is appended.                             *)
C2_CheckoutAllOrNothing ==
    [][\A t \in Tokens, c \in Customers, o \in OrderIds :
         ( /\ CanCheckOut(t, c)
           /\ sessions[t].type # "error"
           /\ \E l \in LinesOf(CartOf(t)) : l.quantity > InStock(l.productId)
           /\ Checkout(t, c, o) )
         => /\ postCheckout(t, c, o).response # << >>
            /\ postCheckout(t, c, o).response[1].status = 400
            /\ NothingWritten]_vars

(* C3: a checkout of an error-type session with customer fields and a     *)
(* non-empty cart goes to sleep without a response and without a write,    *)
(* whatever the state it is retried in; a sleeping checkout ends only by   *)
(* its timer, which answers 500 and writes nothing.                        *)
C3_ErrorCheckoutWritesNothing ==
    [][\A t \in Tokens :
         /\ \A c \in Customers, o \in OrderIds :
              ( /\ CanCheckOut(t, c)
                /\ sessions[t].type = "error"
                /\ Checkout(t, c, o) )
              => /\ postCheckout(t, c, o).response = << >>
                 /\ delayed' = delayed \cup {t}
                 /\ UNCHANGED <<inventory, stock, sessions, orderHistory>>
         /\ (t \in delayed /\ t \notin delayed')
              => /\ CheckoutFailed(t)
                 /\ checkoutFailed(t).response = <<Fail(500, "Checkout failed (error_user)")>>
                 /\ UNCHANGED <<inventory, stock, sessions, orderHistory>>]_vars

(* C3 witness: a checkout sleeps while its session's cart was emptied by  *)
(* a request that arrived during the sleep.                                *)
C3_Witness ==
    \E t \in delayed : t \in DOMAIN sessions /\ sessions[t].type = "error"
                       /\ CartOf(t) = << >>

(* the list names every product of the cart exactly once *)
IsPermutationOf(list, cart) ==
    /\ Len(list) = Len(cart)
    /\ {list[i] : i \in 1..Len(list)} = CartIdsOf(cart)
    /\ \A i, j \in 1..Len(list) : list[i] = list[j] => i = j

(* C4: a reorder whose list is no permutation of the cart's product ids   *)
(* is answered 400 Invalid product ID and leaves the cart as it was.       *)
C4_ReorderRejectsNonPermutation ==
    [][\A t \in Tokens, list \in ReorderLists :
         ( /\ t \in DOMAIN sessions
           /\ ~IsPermutationOf(list, CartOf(t))
           /\ Reorder(t, <<list>>) )
         => /\ postCartReorder(t, <<list>>).response = <<Fail(400, "Invalid product ID")>>
            /\ NothingWritten]_vars

(* C5: an accepted reorder keeps the lines of the cart and their number   *)
(* and puts them in the order of the list.                                 *)
C5_ReorderOnlyReorders ==
    [][\A t \in Tokens, list \in ReorderLists :
         ( /\ t \in DOMAIN sessions
           /\ postCartReorder(t, <<list>>).response[1].status = 200
           /\ Reorder(t, <<list>>) )
         => /\ LinesOf(sessions'[t].cart) = LinesOf(CartOf(t))
            /\ Len(sessions'[t].cart) = Len(CartOf(t))
            /\ \A i \in 1..Len(list) : sessions'[t].cart[i].productId = list[i]]_vars

(* C6: no cart holds two lines of one product. *)
C6_OneLinePerProduct ==
    \A t \in DOMAIN sessions : \A i, j \in 1..Len(CartOf(t)) :
        CartOf(t)[i].productId = CartOf(t)[j].productId => i = j

(* C7: the quantity of every cart line is an integer from 1 to 10. *)
C7_QuantityFrom1To10 ==
    \A t \in DOMAIN sessions : \A l \in LinesOf(CartOf(t)) :
        IsInteger(l.quantity) /\ N(1) <= l.quantity /\ l.quantity <= N(10)

(* C8: DELETE /api/cart/coupon of a session answers 200 with the priced   *)
(* cart and leaves the session without a coupon, so that a second one      *)
(* finds the same state and gives the same answer.                         *)
C8_RemoveCouponSucceeds ==
    [][\A t \in Tokens :
         ( /\ t \in DOMAIN sessions
           /\ DeleteCart(t, "coupon") )
         => /\ deleteCart(t, "coupon").response =
                   <<Ok(200, calculateCartDetails(CartOf(t), NULL))>>
            /\ sessions' = [sessions EXCEPT ![t].appliedCoupon = NULL]]_vars

(* C9: in every reachable state, an add of a catalog product that would   *)
(* take the line beyond the stock is answered 400 Not enough stock with    *)
(* the stock as available, and writes nothing.                             *)
C9_AddBeyondStockRejected ==
    \A t \in DOMAIN sessions : \A id \in ProductIds, q \in AddQuantities :
        ( /\ InCatalog(id)
          /\ Asked(q) >= N(1)
          /\ Held(t, id) + Asked(q) > InStock(id) )
        => /\ postCart(t, id, q).response =
                  <<Reply(400, "Not enough stock", <<InStock(id)>>, << >>)>>
           /\ WritesNothing(postCart(t, id, q))

(* C9 witness: five of a product are in a cart, ten in stock, and an add  *)
(* of six more is one of the requests served.                              *)
C9_Witness ==
    \E t \in DOMAIN sessions :
        /\ Held(t, 0) = N(5)
        /\ InStock(0) = N(10)
        /\ requests >= 3
        /\ postCart(t, 0, <<N(6)>>).response =
               <<Reply(400, "Not enough stock", <<N(10)>>, << >>)>>

(* C10: in every reachable state, an add that the stock allows but that   *)
(* would take the line beyond 10 is answered 400 Max 10 per item and       *)
(* writes nothing; an add of a product that is not in the catalog is       *)
(* answered 404 Product not found and writes nothing.                      *)
C10_AddBeyondCapRejected ==
    \A t \in DOMAIN sessions : \A id \in ProductIds, q \in AddQuantities :
        ( /\ Asked(q) >= N(1)
          /\ \/ ~InCatalog(id)
             \/ /\ Held(t, id) + Asked(q) <= InStock(id)
                /\ Held(t, id) + Asked(q) > N(10) )
        => /\ postCart(t, id, q).response =
                  IF InCatalog(id)
                  THEN <<Fail(400, "Max 10 per item")>>
                  ELSE <<Fail(404, "Product not found")>>
           /\ WritesNothing(postCart(t, id, q))

(* C10 witness: six of a product are in a cart, twelve in stock, and an   *)
(* add of five more is answered Max 10 per item.                           *)
C10_Witness ==
    \E t \in DOMAIN sessions :
        /\ Held(t, 0) = N(6)
        /\ InStock(0) = N(12)
        /\ requests >= 4
        /\ postCart(t, 0, <<N(5)>>).response = <<Fail(400, "Max 10 per item")>>

(* the cart of session t in an outcome *)
CartIn(o, t) == o.sessions[t].cart

(* an outcome that writes the cart of session t and nothing else *)
WritesCartOnly(o, t) ==
    /\ o.sessions = [sessions EXCEPT ![t].cart = CartIn(o, t)]
    /\ o.stock = stock
    /\ o.orderHistory = orderHistory
    /\ o.delayed = delayed
    /\ o.inventory = inventory
    /\ o.nextProductId = nextProductId

(* the first line of the cart for a product *)
IsFirstLineOf(cart, i, id) ==
    /\ i \in 1..Len(cart)
    /\ cart[i].productId = id
    /\ \A j \in 1..(i - 1) : cart[j].productId # id

(* C11: in every reachable state, an add that is answered 201 changes one  *)
(* line: the line of the product gets the asked quantity on top, or, when  *)
(* the cart has none, a new line is appended at the end; the other lines,  *)
(* their order, the applied coupon, the stock and the orders stay, and the *)
(* answer is the pricing of the new cart.                                  *)
C11_AddChangesOneLine ==
    \A t \in DOMAIN sessions : \A id \in ProductIds, q \in AddQuantities :
      \A o \in {postCart(t, id, q)} :
        LET old == CartOf(t)
            new == CartIn(o, t)
        IN  o.response[1].status = 201 =>
              /\ IF id \in CartIdsOf(old)
                 THEN /\ Len(new) = Len(old)
                      /\ \E i \in 1..Len(old) :
                           /\ IsFirstLineOf(old, i, id)
                           /\ new[i] = [productId |-> id,
                                        quantity |-> old[i].quantity + Asked(q)]
                           /\ \A j \in 1..Len(old) : j # i => new[j] = old[j]
                 ELSE new = old \o <<[productId |-> id, quantity |-> Asked(q)]>>
              /\ WritesCartOnly(o, t)
              /\ o.response = <<Ok(201, calculateCartDetails(new, sessions[t].appliedCoupon))>>

(* C11 witness: a cart of two lines with a coupon applied, where an add of *)
(* the first line's product is accepted.                                   *)
C11_Witness ==
    \E t \in DOMAIN sessions :
        /\ Len(CartOf(t)) = 2
        /\ CartOf(t)[1].productId = 0
        /\ sessions[t].appliedCoupon = "SAVE20"
        /\ postCart(t, 0, <<N(5)>>).response[1].status = 201

(* C12: in every reachable state, an add with a quantity above 10 has the  *)
(* outcome of the add with quantity 10, and an add without a quantity has  *)
(* the outcome of the add with quantity 1.                                 *)
C12_AddCapsAndDefaults ==
    \A t \in DOMAIN sessions : \A id \in ProductIds :
        /\ \A ten \in {postCart(t, id, <<N(10)>>)} :
              \A q \in {N(21) \div 2, N(11), N(100)} : postCart(t, id, <<q>>) = ten
        /\ postCart(t, id, << >>) = postCart(t, id, <<N(1)>>)

(* C12 witness: an add of 11 is accepted as 10 in an empty cart and is     *)
(* rejected in a cart that holds the product.                              *)
C12_Witness ==
    /\ \E t \in DOMAIN sessions :
          /\ CartOf(t) = << >>
          /\ postCart(t, 0, <<N(11)>>).response[1].status = 201
          /\ CartIn(postCart(t, 0, <<N(11)>>), t) = <<[productId |-> 0, quantity |-> N(10)]>>
    /\ \E t \in DOMAIN sessions :
          /\ Held(t, 0) > 0
          /\ postCart(t, 0, <<N(11)>>).response[1].status = 400

(* C13: in every reachable state, an update with a quantity that is no     *)
(* integer from 1 to 10 is answered 400 whatever the cart; otherwise it is *)
(* answered 404 Not in cart when the cart has no line of the product, 400  *)
(* Not enough stock when the quantity is above the stock, and else sets    *)
(* the quantity of the line to the one given and keeps the rest.           *)
C13_UpdateReplaces ==
    \A t \in DOMAIN sessions : \A id \in ProductIds :
      \A q \in {N(0), N(3) \div 2, N(1), N(2), N(4), N(10), N(11)} :
      \A o \in {patchCart(t, id, q)} :
        LET old == CartOf(t)
            new == CartIn(o, t)
        IN  IF q % 2 # 0 \/ q < N(1) \/ q > N(10)
            THEN o.response = <<Fail(400, "Quantity 1-10")>> /\ WritesNothing(o)
            ELSE IF id \notin CartIdsOf(old)
            THEN o.response = <<Fail(404, "Not in cart")>> /\ WritesNothing(o)
            ELSE IF q > InStock(id)
            THEN o.response = <<Fail(400, "Not enough stock")>> /\ WritesNothing(o)
            ELSE /\ Len(new) = Len(old)
                 /\ \E i \in 1..Len(old) :
                      /\ IsFirstLineOf(old, i, id)
                      /\ new[i] = [productId |-> id, quantity |-> q]
                      /\ \A j \in 1..Len(old) : j # i => new[j] = old[j]
                 /\ WritesCartOnly(o, t)
                 /\ o.response = <<Ok(200, calculateCartDetails(new, sessions[t].appliedCoupon))>>

(* C13 witness: five of a product in a cart and three in stock: an update  *)
(* to four is refused for the stock, an update to two leaves two.          *)
C13_Witness ==
    \E t \in DOMAIN sessions :
        /\ Held(t, 0) = N(5)
        /\ InStock(0) = N(3)
        /\ patchCart(t, 0, N(4)).response = <<Fail(400, "Not enough stock")>>
        /\ CartIn(patchCart(t, 0, N(2)), t)[1].quantity = N(2)

(* C14: in every reachable state, a remove of a product the cart has no    *)
(* line of is answered 404 Not in cart and writes nothing; a remove of a   *)
(* line of more than 1 takes 1 off it; a remove of a line of 1 takes the   *)
(* line away, keeps the other lines in their order, and leaves no line of  *)
(* the product, so that the next remove of it fails.                       *)
C14_RemoveOne ==
    \A t \in DOMAIN sessions : \A id \in CartIds \cup {7} :
        LET seg == CHOOSE g \in Segments : NumberOf(g) = <<id>>
            o == deleteCart(t, seg)
            old == CartOf(t)
            new == CartIn(o, t)
        IN  IF id \notin CartIdsOf(old)
            THEN o.response = <<Fail(404, "Not in cart")>> /\ WritesNothing(o)
            ELSE \E i \in 1..Len(old) :
                   /\ IsFirstLineOf(old, i, id)
                   /\ old[i].quantity > N(1) =>
                        new = [old EXCEPT ![i].quantity = @ - N(1)]
                   /\ old[i].quantity = N(1) =>
                        /\ new = SubSeq(old, 1, i - 1) \o SubSeq(old, i + 1, Len(old))
                        /\ id \notin CartIdsOf(new)
                   /\ WritesCartOnly(o, t)
                   /\ o.response = <<Ok(200, calculateCartDetails(new, sessions[t].appliedCoupon))>>

(* round half up: hundredths of a cent to cents *)
HalfUp(x) == (x + 50) \div 100

PriceOf(id) == (CHOOSE p \in {inventory[i] : i \in 1..Len(inventory)} : p.id = id).price

(* the pricing stage by stage, in cents, with half-up rounding at every    *)
(* stage; fraction is the discount in percent                              *)
StagedPricing(cart, fraction) ==
    LET lineTotal(i) == HalfUp(PriceOf(cart[i].productId) * cart[i].quantity * 50)
        itemTotal == SumOf([i \in 1..Len(cart) |-> lineTotal(i)])
        discount == HalfUp(itemTotal * fraction)
        subtotal == itemTotal - discount
        tax == HalfUp(subtotal * 8)
    IN  [lineTotals |-> [i \in 1..Len(cart) |-> lineTotal(i)],
         itemTotal |-> itemTotal, discount |-> discount, subtotal |-> subtotal,
         tax |-> tax, total |-> subtotal + tax]

(* the amounts of a priced cart *)
AmountsOf(details) ==
    [lineTotals |-> [i \in 1..Len(details.items) |-> details.items[i].lineTotal],
     itemTotal |-> details.itemTotal, discount |-> details.discount,
     subtotal |-> details.subtotal, tax |-> details.tax, total |-> details.total]

(* C15: the priced cart of every session whose quantities are integers    *)
(* and whose coupon, if any, is one of the table, is the pricing stage by  *)
(* stage in cents with half-up rounding at every stage.                    *)
C15_HalfUpAtEveryStage ==
    \A t \in DOMAIN sessions :
        LET coupon == sessions[t].appliedCoupon
        IN  ( /\ \A l \in LinesOf(CartOf(t)) : l.quantity % 2 = 0 /\ InCatalog(l.productId)
              /\ coupon = NULL \/ coupon \in DOMAIN validCoupons )
            => AmountsOf(getCart(t).response[1].body[1]) =
                   StagedPricing(CartOf(t), IF coupon = NULL THEN 0 ELSE validCoupons[coupon])

(* C16: in every reachable state, a GET of the cart answers the pricing of *)
(* the session's cart and coupon and writes nothing, so that the same      *)
(* request finds the same state and has the same answer; and two sessions  *)
(* with the same cart and coupon get the same answer, whoever they belong  *)
(* to and whatever the stock and the orders are.                           *)
C16_PricingRepeatable ==
    \A t \in DOMAIN sessions :
        /\ getCart(t).response =
               <<Ok(200, calculateCartDetails(CartOf(t), sessions[t].appliedCoupon))>>
        /\ WritesNothing(getCart(t))
        /\ \A u \in DOMAIN sessions :
              ( /\ CartOf(u) = CartOf(t)
                /\ sessions[u].appliedCoupon = sessions[t].appliedCoupon )
              => getCart(u).response = getCart(t).response

(* C16 witness: two users hold the same cart of one line. *)
C16_Witness ==
    \E t, u \in DOMAIN sessions :
        /\ sessions[t].username # sessions[u].username
        /\ CartOf(t) = CartOf(u)
        /\ CartOf(t) # << >>

(* C17: in every reachable state, a coupon request with a code that is not *)
(* in the coupon table is answered 400 Invalid coupon and leaves the       *)
(* session without a coupon; and the priced cart of a session that has no  *)
(* coupon of the table applied has discount 0.                             *)
C17_UnknownCouponRejected ==
    \A t \in DOMAIN sessions :
        /\ \A code \in CouponCodes \ DOMAIN validCoupons :
              LET o == postCartCoupon(t, code)
              IN  /\ o.response = <<Fail(400, "Invalid coupon")>>
                  /\ o.sessions = [sessions EXCEPT ![t].appliedCoupon = NULL]
                  /\ o.stock = stock
                  /\ o.orderHistory = orderHistory
        /\ sessions[t].appliedCoupon \notin DOMAIN validCoupons
              => getCart(t).response[1].body[1].discount = 0

(* C18: in every reachable state of version 3.0, a coupon request with a   *)
(* code of the coupon table, whatever its discount, is answered 200 and    *)
(* leaves the code as the session's coupon.                                *)
C18_TableCouponApplies ==
    \A t \in DOMAIN sessions : \A code \in DOMAIN coupons :
        LET o == postCartCouponV3(t, code)
        IN  /\ o.response[1].status = 200
            /\ o.sessions = [sessions EXCEPT ![t].appliedCoupon = code]

(* the quantity a cart holds of a product over all its lines *)
QuantityOf(cart, id) ==
    SumOf([i \in 1..Len(cart) |-> IF cart[i].productId = id THEN cart[i].quantity ELSE 0])

C20_CheckoutPreconditions ==
    \A t \in DOMAIN sessions : \A f, l, z \in {"", "x"}, oid \in OrderIds :
      \A o \in {postCheckout(t, [firstName |-> f, lastName |-> l, postalCode |-> z], oid)} :
            /\ (f = "" \/ l = "" \/ z = "")
                 => o.response = <<Fail(400, "All fields required")>> /\ WritesNothing(o)
            /\ (f # "" /\ l # "" /\ z # "" /\ CartOf(t) = << >>)
                 => o.response = <<Fail(400, "Cart empty")>> /\ WritesNothing(o)

(* C20 witness: an error user with an empty cart, and a user with a line   *)
(* and a coupon.                                                           *)
C20_Witness ==
    \E t, u \in DOMAIN sessions :
        /\ sessions[t].type = "error"
        /\ CartOf(t) = << >>
        /\ CartOf(u) # << >>
        /\ sessions[u].appliedCoupon = "SAVE20"

(* C21: in every reachable state, no two orders of the history have the    *)
(* same orderId, and no two sessions have last orders of the same orderId, *)
(* whatever ids the generator draws.                                       *)
C21_OrderIdsUnique ==
    /\ \A i, j \in 1..Len(orderHistory) :
          i # j => orderHistory[i].orderId # orderHistory[j].orderId
    /\ \A t, u \in DOMAIN sessions :
          (t # u /\ sessions[t].lastCheckout # << >> /\ sessions[u].lastCheckout # << >>)
          => sessions[t].lastCheckout[1].orderId # sessions[u].lastCheckout[1].orderId

(* C22: across every step the order history keeps its orders: it never     *)
(* gets shorter and every order in it stays where it is with all its       *)
(* fields, whatever the step does to the catalog, the stock or the         *)
(* sessions.                                                               *)
C22_HistoryAppendOnly ==
    [][ /\ Len(orderHistory') >= Len(orderHistory)
        /\ SubSeq(orderHistory', 1, Len(orderHistory)) = orderHistory ]_vars

(* C22 witness: the history has an order whose product has left the        *)
(* catalog and whose session has been logged out.                          *)
C22_Witness ==
    /\ orderHistory # << >>
    /\ ~InCatalog(orderHistory[1].items[1].productId)
    /\ \A t \in DOMAIN sessions : sessions[t].username # orderHistory[1].username

(* C23: in every reachable state, an admin's delete of a catalog product   *)
(* that some session has a cart line of is answered 409 and writes         *)
(* nothing; and every cart line of every session names a product that is   *)
(* in the catalog and has a stock entry.                                   *)
C23_DeleteInUseRejected ==
    /\ \A t \in DOMAIN sessions : \A id \in DeleteIds :
          ( /\ sessions[t].role = "admin"
            /\ InCatalog(id)
            /\ \E u \in DOMAIN sessions : id \in CartIdsOf(CartOf(u)) )
          => \A o \in {deleteAdminProduct(t, id)} :
                /\ o.response[1].status = 409
                /\ WritesNothing(o)
    /\ \A t \in DOMAIN sessions : \A l \in LinesOf(CartOf(t)) :
          InCatalog(l.productId) /\ l.productId \in DOMAIN stock

(* C23 witness: a product the admin has created is in a shopper's cart and *)
(* the admin's delete of it is refused.                                    *)
C23_Witness ==
    \E t, u \in DOMAIN sessions :
        /\ sessions[t].role = "admin"
        /\ 6 \in CartIdsOf(CartOf(u))
        /\ deleteAdminProduct(t, 6).response[1].status = 409

(* C24: in every reachable state, an admin's set-stock of a product that   *)
(* is not in the catalog is answered 404 and writes nothing; of a catalog  *)
(* product with a negative quantity or one that is no integer it is        *)
(* answered 400 Invalid quantity and writes nothing; otherwise it sets the *)
(* stock of that product to the quantity and leaves the stock of the other *)
(* products, the carts, the catalog and the orders as they are.            *)
C24_SetStockExact ==
    \A t \in DOMAIN sessions : \A id \in DeleteIds :
      \A q \in {N(0 - 1), N(0 - 1) \div 2, N(0), N(3) \div 2, N(3), N(12)} :
        sessions[t].role = "admin" =>
          \A o \in {patchAdminStock(t, id, q)} :
            IF ~InCatalog(id)
            THEN o.response = <<Fail(404, "Not found")>> /\ WritesNothing(o)
            ELSE IF q < 0 \/ q % 2 # 0
            THEN o.response = <<Fail(400, "Invalid quantity")>> /\ WritesNothing(o)
            ELSE /\ o.response[1].status = 200
                 /\ DOMAIN o.stock = DOMAIN stock
                 /\ o.stock[id] = q
                 /\ \A k \in DOMAIN stock \ {id} : o.stock[k] = stock[k]
                 /\ o.sessions = sessions
                 /\ o.inventory = inventory
                 /\ o.orderHistory = orderHistory

(* C24 witness: the stock of a product has been set to 12, above the       *)
(* initial 10, while a cart holds a line, and the catalog has gained a     *)
(* product.                                                                *)
C24_Witness ==
    /\ InStock(0) = N(12)
    /\ \E t \in DOMAIN sessions : CartOf(t) # << >>
    /\ \E t \in DOMAIN sessions : sessions[t].role = "admin"
    /\ Len(inventory) > Len(InitialInventory)

(* a session as a login leaves it *)
IsFresh(session) ==
    session.cart = << >> /\ session.appliedCoupon = NULL /\ session.lastCheckout = << >>

(* the sessions but the one of token t *)
Without(t) == [k \in DOMAIN sessions \ {t} |-> sessions[k]]

(* what a login and a logout would leave in this state *)
LoginLogoutOutcomes ==
    /\ \A cred \in Credentials : \A o \in {postLogin(cred, nextToken)} :
          IF o.response[1].status = 200
          THEN /\ nextToken \notin DOMAIN sessions
               /\ DOMAIN o.sessions = DOMAIN sessions \cup {nextToken}
               /\ o.sessions[nextToken].username = cred.username
               /\ IsFresh(o.sessions[nextToken])
               /\ \A k \in DOMAIN sessions : o.sessions[k] = sessions[k]
               /\ <<o.stock, o.orderHistory, o.inventory>> = <<stock, orderHistory, inventory>>
          ELSE WritesNothing(o)
    /\ \A t \in DOMAIN sessions : \A out \in {postLogout(t)} :
          /\ out.sessions = Without(t)
          /\ <<out.stock, out.orderHistory, out.inventory>> = <<stock, orderHistory, inventory>>

(* what a step does to the tokens *)
SessionsStep ==
    \/ /\ DOMAIN sessions' = DOMAIN sessions
       /\ \A k \in DOMAIN sessions : sessions'[k].username = sessions[k].username
    \/ \E new \in DOMAIN sessions' \ DOMAIN sessions :
          /\ DOMAIN sessions' = DOMAIN sessions \cup {new}
          /\ IsFresh(sessions'[new])
          /\ \A k \in DOMAIN sessions : sessions'[k] = sessions[k]
    \/ \E t \in DOMAIN sessions : sessions' = Without(t)

(* C25: in every reachable state, a login that is answered 200 adds one    *)
(* session of the user under a token no session has, with an empty cart,   *)
(* no coupon and no last order, and keeps every session there is; a login  *)
(* that fails writes nothing; a logout removes the session of its token    *)
(* and keeps the others. And across every step the set of tokens stays,    *)
(* gains one fresh session, or loses one session, so that a token stays    *)
(* valid with its cart through the later logins of its user.               *)
C25_LoginAddsOneSession == []LoginLogoutOutcomes /\ [][SessionsStep]_vars

(* C25 witness: two sessions of one user, the first with a cart that the   *)
(* second login has left alone.                                            *)
C25_Witness ==
    \E t, u \in DOMAIN sessions :
        /\ t < u
        /\ sessions[t].username = sessions[u].username
        /\ CartOf(t) # << >>
        /\ CartOf(u) = << >>

(* C26: in every reachable state of version 10, every session is of a user *)
(* that has an account: once an account is deleted no session of its       *)
(* username is in the store, until the name is registered again.           *)
C26_NoSessionOfDeletedAccount ==
    \A t \in DOMAIN sessions : UserIndex(sessions[t].username) # 0

(* C27: in every reachable state, a request that the limiter answers 429   *)
(* leaves the store as it is: the count and the authCount of the client    *)
(* are what they were.                                                     *)
C27_RejectedCountsNothing ==
    \A ip \in Ips, tier \in Tiers, path \in Paths :
        \A o \in {rateLimiter(ip, tier, path)} :
            o.status = 429 => o.store = rateLimitStore

(* the general count of a client in its window, 0 when the window is over  *)
(* or the client is new                                                    *)
CountOf(ip) == IF InWindow(ip) THEN rateLimitStore[ip].count ELSE 0

(* C28: in every reachable state, the limiter lets a request through only  *)
(* if the count of the client in its window is below the limit of the      *)
(* request's tier, 100 for anonymous, 500 for authenticated and 1000 for   *)
(* admin, and then the count is one higher, so it counts the requests let  *)
(* through in the window; a request answered 429 leaves the count; and no  *)
(* count is above 1000.                                                    *)
C28_AdmittedBelowTierLimit ==
    /\ \A ip \in Ips, tier \in Tiers, path \in Paths :
          \A o \in {rateLimiter(ip, tier, path)} :
            IF o.status = 200
            THEN /\ CountOf(ip) < Limit(tier)
                 /\ o.store[ip].count = CountOf(ip) + 1
                 /\ o.store[ip].resetTime = RecordOf(ip).resetTime
            ELSE /\ DOMAIN o.store = DOMAIN rateLimitStore
                 /\ \A k \in DOMAIN rateLimitStore :
                       /\ o.store[k].count = rateLimitStore[k].count
                       /\ o.store[k].resetTime = rateLimitStore[k].resetTime
    /\ Limit("anonymous") < Limit("authenticated") /\ Limit("authenticated") < Limit("admin")
    /\ \A ip \in DOMAIN rateLimitStore : rateLimitStore[ip].count <= 1000

(* C28 witness: a client with 500 requests let through in its window: an   *)
(* authenticated request is refused and an admin request is let through.   *)
C28_Witness ==
    \E ip \in DOMAIN rateLimitStore :
        /\ InWindow(ip)
        /\ rateLimitStore[ip].count = 500
        /\ rateLimiter(ip, "authenticated", "/api/cart").status = 429
        /\ rateLimiter(ip, "admin", "/api/cart").status = 200

(* the authentication count of a client in its window *)
AuthCountOf(ip) == IF InWindow(ip) THEN rateLimitStore[ip].authCount ELSE 0

(* C29: in every reachable state, a request to /api/login, /api/register   *)
(* or /api/refresh of a client whose authentication count in its window is *)
(* 10 is answered 429 Too many attempts, whatever its tier, and changes    *)
(* nothing; below 10 it passes the authentication check and the count is   *)
(* one higher; a request to another path leaves the count; so the count is *)
(* the number of requests that passed the check in the window and is never *)
(* above 10.                                                               *)
C29_AuthCounterStricter ==
    /\ \A ip \in Ips, tier \in Tiers, path \in authPaths :
          \A o \in {rateLimiter(ip, tier, path)} :
            IF AuthCountOf(ip) >= 10
            THEN /\ o.status = 429
                 /\ o.error = "Too many attempts. Try again later."
                 /\ o.store = rateLimitStore
            ELSE /\ o.error # "Too many attempts. Try again later."
                 /\ ip \in DOMAIN o.store
                 /\ o.store[ip].authCount = AuthCountOf(ip) + 1
    /\ \A ip \in Ips, tier \in Tiers, path \in Paths \ authPaths :
          \A o \in {rateLimiter(ip, tier, path)} :
            /\ o.error # "Too many attempts. Try again later."
            /\ ip \in DOMAIN o.store => o.store[ip].authCount = AuthCountOf(ip)
    /\ \A ip \in DOMAIN rateLimitStore : rateLimitStore[ip].authCount <= 10

(* C29 witness: a client has passed the authentication check 10 times in   *)
(* its window: the login of an admin is refused while its request to the   *)
(* cart is let through.                                                    *)
C29_Witness ==
    \E ip \in DOMAIN rateLimitStore :
        /\ InWindow(ip)
        /\ rateLimitStore[ip].authCount = 10
        /\ rateLimiter(ip, "admin", "/api/login").status = 429
        /\ rateLimiter(ip, "admin", "/api/cart").status = 200

(* a request of a client whose window is over is let through and leaves    *)
(* the counters of a first request and a reset time one window from now;   *)
(* up to and at the reset time the stored record counts                    *)
ResetOnAccess ==
    \A ip \in DOMAIN rateLimitStore : \A tier \in Tiers, path \in Paths :
        \A o \in {rateLimiter(ip, tier, path)} :
          IF now > rateLimitStore[ip].resetTime
          THEN /\ o.status = 200
               /\ o.store[ip] = [count |-> 1,
                                 authCount |-> IF path \in authPaths THEN 1 ELSE 0,
                                 resetTime |-> now + windowMs]
          ELSE /\ o.store[ip].resetTime = rateLimitStore[ip].resetTime
               /\ o.store[ip].count >= rateLimitStore[ip].count
               /\ rateLimitStore[ip].count >= Limit(tier) => o.status = 429

(* C30: in every reachable state, the first request of a client after the  *)
(* reset time of its window is judged on counters of 0 and a reset time    *)
(* one window later, so it is let through whatever the counters were; and  *)
(* across every step in which time passes the store stays as it is.        *)
C30_LazyWindowReset ==
    []ResetOnAccess /\ [][now' # now => rateLimitStore' = rateLimitStore]_vars

(* C30 witness: the window of a client that had used up the anonymous      *)
(* limit and the authentication limit is over, and its record is still in  *)
(* the store.                                                              *)
C30_Witness ==
    \E ip \in DOMAIN rateLimitStore :
        /\ now > rateLimitStore[ip].resetTime
        /\ rateLimitStore[ip].count = 100
        /\ rateLimitStore[ip].authCount = 10
        /\ rateLimiter(ip, "anonymous", "/api/login").status = 200

(* the sessions of the other tokens are in the outcome as they are *)
OthersKept(o, t) ==
    \A u \in DOMAIN sessions \ {t} : u \in DOMAIN o.sessions /\ o.sessions[u] = sessions[u]

(* C31: in every reachable state, whatever cart, coupon, checkout or reset *)
(* request arrives with the token of one session, and the timer of its     *)
(* sleeping checkout too, leaves the cart, the coupon and the last order   *)
(* of every other session as they are, a session of the same user included.*)
C31_OtherSessionsUntouched ==
    \A t \in DOMAIN sessions :
        /\ OthersKept(getCart(t), t)
        /\ \A id \in ProductIds, q \in AddQuantities : OthersKept(postCart(t, id, q), t)
        /\ \A id \in CartIds, q \in PatchQuantities : OthersKept(patchCart(t, id, q), t)
        /\ \A seg \in Segments : OthersKept(deleteCart(t, seg), t)
        /\ \A l \in ReorderLists : OthersKept(postCartReorder(t, <<l>>), t)
        /\ OthersKept(postCartReorder(t, <<>>), t)
        /\ \A code \in CouponCodes : OthersKept(postCartCoupon(t, code), t)
        /\ \A c \in Customers, o \in OrderIds : OthersKept(postCheckout(t, c, o), t)
        /\ OthersKept(checkoutFailed(t), t)
        /\ OthersKept(postReset(t), t)

(* C31 witness: two sessions of one user, each with a cart of its own,     *)
(* the second filled after the first.                                      *)
C31_Witness ==
    \E t, u \in DOMAIN sessions :
        /\ t # u
        /\ sessions[t].username = sessions[u].username
        /\ CartOf(t) # << >>
        /\ CartOf(u) # << >>
        /\ CartOf(t) # CartOf(u)

(* the timer of every sleeping request answers *)
TimersAnswer ==
    /\ \A t \in delayed : checkoutFailed(t).response # << >>
    /\ \A login \in loginsDelayed : postLoginAfterAwait(login, nextToken).response # << >>
    /\ \A listing \in listingsDelayed : getInventoryAfterAwait(listing).response # << >>

(* C32: every request that went to sleep, the login and the catalog listing *)
(* of a performance user and the checkout of an error user, is answered in  *)
(* the end, whatever requests arrive while it sleeps, a logout of its       *)
(* session included: a sleeping request leaves the sleepers, and it leaves  *)
(* them by its timer, which sends a response.                               *)
C32_DelayedRequestsComplete ==
    /\ []TimersAnswer
    /\ \A t \in Tokens : (t \in delayed) ~> (t \notin delayed)
    /\ \A login \in SleepingLogins : (login \in loginsDelayed) ~> (login \notin loginsDelayed)
    /\ \A listing \in SleepingListings :
          (listing \in listingsDelayed) ~> (listing \notin listingsDelayed)

(* C32 witness: a catalog listing sleeps while its session has been logged *)
(* out.                                                                    *)
C32_Witness ==
    \E listing \in listingsDelayed : listing.token \notin DOMAIN sessions

(* the handler answered with an error *)
IsRejection(o) == o.response # << >> /\ o.response[1].status >= 400

(* C33: in every reachable state, an update-quantity, a remove-from-cart   *)
(* or a reorder request that is rejected, whatever its token, leaves the   *)
(* sessions with their carts and coupons, the stock and the order history  *)
(* as they are.                                                            *)
C33_RejectedCartRequestWritesNothing ==
    \A t \in Tokens :
        /\ \A id \in CartIds \cup {7}, q \in PatchQuantities :
              IsRejection(patchCart(t, id, q)) => WritesNothing(patchCart(t, id, q))
        /\ \A seg \in Segments :
              IsRejection(deleteCart(t, seg)) => WritesNothing(deleteCart(t, seg))
        /\ \A body \in {<<>>} \cup {<<l>> : l \in ReorderLists} :
              IsRejection(postCartReorder(t, body)) => WritesNothing(postCartReorder(t, body))

(* C33 witness: a session with a cart and a coupon, for which an update, a *)
(* removal and a reorder are rejected.                                     *)
C33_Witness ==
    \E t \in DOMAIN sessions :
        /\ CartOf(t) # << >>
        /\ sessions[t].appliedCoupon # NULL
        /\ \E id \in CartIdsOf(CartOf(t)), q \in PatchQuantities : IsRejection(patchCart(t, id, q))
        /\ \E seg \in Segments : IsRejection(deleteCart(t, seg))
        /\ \E l \in ReorderLists : l # << >> /\ IsRejection(postCartReorder(t, <<l>>))

(* what the cart and coupon handlers would leave of the stock *)
CartRequestsKeepStock ==
    \A t \in Tokens :
        /\ getCart(t).stock = stock
        /\ \A id \in ProductIds, q \in AddQuantities : postCart(t, id, q).stock = stock
        /\ \A id \in CartIds, q \in PatchQuantities : patchCart(t, id, q).stock = stock
        /\ \A seg \in Segments : deleteCart(t, seg).stock = stock
        /\ deleteCartCoupon(t).stock = stock
        /\ \A body \in {<<>>} \cup {<<l>> : l \in ReorderLists} : postCartReorder(t, body).stock = stock
        /\ \A code \in CouponCodes : postCartCoupon(t, code).stock = stock
        /\ postReset(t).stock = stock

(* a step that changes the stock is a checkout that stored its order or a  *)
(* set-stock of an admin                                                   *)
StockStep ==
    stock' # stock =>
        \/ /\ Len(orderHistory') = Len(orderHistory) + 1
           /\ \E t \in DOMAIN sessions : stock' = DeductStock(stock, CartOf(t))
        \/ \E t \in DOMAIN sessions, id \in StockIds, q \in StockQuantities :
              /\ requireAdmin(t)
              /\ stock' = patchAdminStock(t, id, q).stock

(* the quantity of a product over all carts *)
RECURSIVE HeldByAll(_, _)
HeldByAll(tokens, id) ==
    IF tokens = {} THEN 0
    ELSE LET t == CHOOSE k \in tokens : TRUE
         IN  QuantityOf(CartOf(t), id) + HeldByAll(tokens \ {t}, id)

(* C34: in every reachable state no add, update, remove, reorder, apply or *)
(* remove coupon, reset or get-cart request changes the stock, whatever    *)
(* its token and input; and across every step the stock changes only by a  *)
(* checkout that stores its order or by an admin's set-stock. Nothing is   *)
(* reserved, so the carts together may hold more of a product than is in   *)
(* stock.                                                                  *)
C34_CartRequestsKeepStock == []CartRequestsKeepStock /\ [][StockStep]_vars

(* C34 witness: the carts together hold more of a product than its stock,  *)
(* each of them no more than the stock.                                    *)
C34_Witness ==
    \E id \in DOMAIN stock :
        /\ HeldByAll(DOMAIN sessions, id) > stock[id]
        /\ \A t \in DOMAIN sessions : QuantityOf(CartOf(t), id) <= stock[id]
        /\ stock[id] = N(MAX_STOCK)

(* the quantity of a product over the line items of the orders *)
RECURSIVE OrderedOf(_, _)
OrderedOf(history, id) ==
    IF history = << >> THEN 0
    ELSE QuantityOf(Head(history).items, id) + OrderedOf(Tail(history), id)

AnyToken == Tokens \cup {0}

(* C36: in every reachable state, a create-product, delete-product,        *)
(* set-stock, list-stock or list-orders request without a token, with a    *)
(* token that has no session, or with the token of a session that is not   *)
(* an admin's is answered 403 and leaves the catalog, the stock, the       *)
(* sessions and the order history as they are.                             *)
C36_AdminRequestsNeedAdmin ==
    \A t \in AnyToken :
        (t \notin DOMAIN sessions \/ sessions[t].role # "admin") =>
            /\ \A body \in ProductBodies :
                  /\ postAdminProducts(t, body).response = <<Forbidden>>
                  /\ WritesNothing(postAdminProducts(t, body))
            /\ \A id \in DeleteIds :
                  /\ deleteAdminProduct(t, id).response = <<Forbidden>>
                  /\ WritesNothing(deleteAdminProduct(t, id))
            /\ \A id \in CatalogStockIds, q \in StockQuantities :
                  /\ patchAdminStock(t, id, q).response = <<Forbidden>>
                  /\ WritesNothing(patchAdminStock(t, id, q))
            /\ getAdminStock(t).response = <<Forbidden>>
            /\ WritesNothing(getAdminStock(t))
            /\ getAdminOrders(t).response = <<Forbidden>>
            /\ WritesNothing(getAdminOrders(t))

(* C36 witness: a shopper's session, a token whose session was logged out, *)
(* and a product in stock that a set-stock or a delete would change.       *)
C36_Witness ==
    /\ \E t \in DOMAIN sessions : sessions[t].role = "user"
    /\ \E t \in Tokens : t < nextToken /\ t \notin DOMAIN sessions
    /\ ~InUse(0) /\ ProductIndex(0) # 0 /\ stock[0] = N(MAX_STOCK)

(* the token was handed out by a login and its session is gone; a logout   *)
(* is the one request that removes a session                               *)
LoggedOut(t) == t < nextToken /\ t \notin DOMAIN sessions

(* the handler answered 401 and wrote nothing *)
Refused(o) == o.response = <<Unauthorized>> /\ WritesNothing(o)

(* what the requests under a logged-out token would get *)
LoggedOutTokenRefused ==
    /\ \A t \in DOMAIN sessions : t \notin DOMAIN postLogout(t).sessions
    /\ \A t \in Tokens :
          LoggedOut(t) =>
              /\ Refused(getCart(t))
              /\ \A id \in ProductIds, q \in AddQuantities : Refused(postCart(t, id, q))
              /\ \A id \in CartIds, q \in PatchQuantities : Refused(patchCart(t, id, q))
              /\ \A seg \in Segments : Refused(deleteCart(t, seg))
              /\ \A body \in {<<>>} \cup {<<l>> : l \in ReorderLists} :
                    Refused(postCartReorder(t, body))
              /\ \A code \in CouponCodes : Refused(postCartCoupon(t, code))
              /\ \A c \in Customers, o \in OrderIds : Refused(postCheckout(t, c, o))
              /\ Refused(postReset(t))

(* C37: a logout removes the session of its token, and from then on, in    *)
(* every state, every cart, coupon, checkout and reset request under that  *)
(* token is answered 401 Unauthorized and writes nothing; across every     *)
(* step a logged-out token stays without a session.                        *)
C37_LoggedOutTokenStaysOut ==
    /\ []LoggedOutTokenRefused
    /\ [][\A t \in Tokens : LoggedOut(t) => LoggedOut(t)']_vars

(* C37 witness: a token is logged out and a later session has filled its   *)
(* cart since.                                                             *)
C37_Witness ==
    \E t \in Tokens :
        /\ LoggedOut(t)
        /\ \E u \in DOMAIN sessions : u > t /\ CartOf(u) # << >>

(* the credentials of a login: those of the input set and an unknown name *)
LoginAttempts == Credentials \cup {[username |-> "nobody", password |-> "secret_sauce"]}

(* the credentials are those of no user, or of a locked one *)
IsUnknown(cred) == FindUser(cred) = 0
IsLocked(cred) == FindUser(cred) # 0 /\ users[FindUser(cred)].type = "locked"

(* C38: in every reachable state, a login with the credentials of a locked *)
(* user is answered 403 and a login with credentials of no user 401, in    *)
(* version 7 and in version 3 alike, and neither adds a session or puts a  *)
(* login to sleep; so no session of the store has the type 'locked'.       *)
C38_LockedNeverLogsIn ==
    /\ \A cred \in LoginAttempts : \A o \in {postLogin(cred, nextToken), postLoginV3(cred, nextToken)} :
          /\ IsLocked(cred) => o.response[1].status = 403
          /\ IsUnknown(cred) => o.response[1].status = 401
          /\ (IsLocked(cred) \/ IsUnknown(cred)) =>
                /\ WritesNothing(o)
                /\ o.loginsDelayed = loginsDelayed
    /\ \A t \in DOMAIN sessions : sessions[t].type # "locked"

(* C38 witness: logins were attempted, one went through, and a login of    *)
(* the locked user, of a wrong password and of an unknown name are         *)
(* refused.                                                                *)
C38_Witness ==
    /\ requests > Cardinality(DOMAIN sessions)
    /\ nextToken = 2
    /\ DOMAIN sessions = {1}
    /\ IsFresh(sessions[1])
    /\ \E cred \in LoginAttempts : IsLocked(cred) /\ IsRejection(postLogin(cred, nextToken))
    /\ \E cred \in LoginAttempts :
          /\ IsUnknown(cred)
          /\ \E i \in 1..Len(users) : users[i].username = cred.username
          /\ IsRejection(postLogin(cred, nextToken))
=============================================================================
